---- MODULE Spec2Model ----
(***************************************************************************)
(* ReactiveLitepp: the Event dispatch core (Event<Args...>, its shared     *)
(* Impl registry, Subscription tokens).  Every thread runs client code     *)
(* that calls Subscribe / Unsubscribe / Notify and destroys Events; a      *)
(* handler invoked by Notify is client code too and may make the same      *)
(* calls re-entrantly.  Each thread's call stack is explicit, the mutex    *)
(* of an Impl and the ownership of an Impl (shared_ptr / weak_ptr) are     *)
(* explicit, and every step is one atomic access of the code.              *)
(***************************************************************************)
EXTENDS Naturals, Integers, Sequences, FiniteSets, TLC

\* ---------------------------------------------------------------- bounds
MaxSubs == 2        \* Subscribe calls made on one Event
MaxDepth == 4       \* frames on the call stack of the single client thread
MaxCalls == 3       \* calls the client makes that are recorded in log
MaxNest == 6        \* frames on the call stack of a client of an ObservableObject
MaxSets == 2        \* assignments made to the properties of the ObservableObject
MaxMutations == 3   \* modifier calls made on the ObservableCollection
MaxWatchers == 1    \* handlers subscribed to one event of the ObservableCollection

Events == {1}
PropertyChanging == 2   \* ObservableObject::PropertyChanging
PropertyChanged == 3    \* ObservableObject::PropertyChanged
ObjectEvents == {PropertyChanging, PropertyChanged}
CollectionChanging == 4     \* ObservableCollection::CollectionChanging
CollectionChanged == 5      \* ObservableCollection::CollectionChanged
CollectionEvents == {CollectionChanging, CollectionChanged}
\* Event<int> event1, event2, event3 of a client that keeps several Events.
event1 == 6
event2 == 7
event3 == 8
ChainEvents == {event1, event2, event3}
AllEvents == Events \cup ObjectEvents \cup CollectionEvents \cup ChainEvents
\* enum class ChangeType
Add == 0
Remove == 1
Clear == 2
Insert == 3
NoEvent == 0        \* where the Subscriptions built by Subscription() are kept
Threads == {1, 2}
Ids == 1..MaxSubs
Scopes == {1, 2}    \* places where client code keeps a ScopedSubscription
Values == {1, 2}    \* payloads of an Event<int>, values of a property
Properties == {1, 2}    \* the properties of the ObservableObject (Age, Name)

\* ----------------------------------------------------------------- state
VARIABLES
    impl,        \* impl[e]: the Event object still holds its shared_ptr<Impl>
    locked,      \* locked[e]: threads holding a shared_ptr from weakImpl.lock()
    handlers,    \* handlers[e]: keys of Impl::handlers (identity -> handler)
    currentId,   \* currentId[e]: Impl::currentId
    mutex,       \* mutex[e]: thread owning Impl::mutex, 0 when free
    tokens,      \* tokens[e][id]: the Subscription returned for identity id
    stack,       \* stack[t]: call stack of thread t, innermost frame last
    exc,         \* exc[t]: exception propagating on thread t ("none" if none)
    scoped,      \* scoped[s]: the ScopedSubscription object in slot s
    field,       \* field[p]: the backing field of property p of the ObservableObject
    items,       \* ObservableCollection::_items
    log          \* what the client's code has observed so far, oldest first

vars == <<impl, locked, handlers, currentId, mutex, tokens, stack, exc, scoped,
         field, items, log>>

\* ------------------------------------------------------------- helpers
\* All orders in which the range-for over the unordered_map may visit keys.
Perms(S) ==
    {p \in [1..Cardinality(S) -> S] : \A i, j \in 1..Cardinality(S) : i # j => p[i] # p[j]}

\* A stack frame.  op is the function executing, pc its next step.
\* copy / i are Notify's handlersCopy and loop position; done and valid
\* record, for the properties, the tokens whose Unsubscribe had returned
\* and the tokens that were valid when the copy was taken; caught, that
\* this handler body has caught an exception of a call it made.  self and
\* other are the ScopedSubscription objects a call works on (this, other).
\* arg is the tuple of arguments of the call (args... of Notify, and what
\* a handler is called with).
Frame(op, e, id, pc) ==
    [op |-> op, e |-> e, id |-> id, pc |-> pc, copy |-> <<>>, i |-> 0,
     done |-> {}, valid |-> {}, caught |-> FALSE, self |-> 0, other |-> 0,
     arg |-> << >>]

Top(t) == stack[t][Len(stack[t])]
Pop(t) == SubSeq(stack[t], 1, Len(stack[t]) - 1)
SetTop(t, f) == [stack EXCEPT ![t] = Append(Pop(t), f)]
Push(t, f) == [stack EXCEPT ![t] = Append(stack[t], f)]
Running(t, op, pc) ==
    /\ stack[t] # <<>>
    /\ Top(t).op = op
    /\ Top(t).pc = pc
    /\ exc[t] = "none"

\* Client code is running on t: at top level, or inside a handler body.
AtClient(t) == IF stack[t] = <<>> THEN TRUE ELSE Top(t).op = "Handler"
InClient(t) == exc[t] = "none" /\ AtClient(t)
\* ... and the n frames of a further call still fit the bounded stack.
CanCall(t, n) == InClient(t) /\ Len(stack[t]) + n <= MaxDepth

\* (variant: the tokens' closures capture a shared_ptr, not a weak_ptr)
ImplAlive_tokensOwn(e) == impl[e] \/ locked[e] # {} \/ DOMAIN tokens[e] # {}

\* The Impl exists while some shared_ptr to it exists.
ImplAlive(e) == impl[e] \/ locked[e] # {}

\* Subscription::IsValid: isValidFunc && isValidFunc(), with
\* isValidFunc = [weakImpl] { return !weakImpl.expired(); }
IsValid(e, id) == tokens[e][id].isValidFunc /\ ImplAlive(e)

\* The Subscription Event::Subscribe returns; wrapped: it was handed to a
\* ScopedSubscription, which keeps it private.
\* id is the identity its removal action has captured ([weakImpl, id]).
NewToken ==
    [unsubscribeFunc |-> TRUE, isValidFunc |-> TRUE, weakImpl |-> TRUE,
     returned |-> FALSE, wrapped |-> FALSE, id |-> 0]

\* Subscription() = default: both std::function members are empty.
DefaultToken ==
    [unsubscribeFunc |-> FALSE, isValidFunc |-> FALSE, weakImpl |-> FALSE,
     returned |-> FALSE, wrapped |-> FALSE, id |-> 0]

\* A ScopedSubscription: no object in the slot, an object whose Subscription
\* is empty (built by default, or moved from), or an object holding the Subscription of (e, id).
NoScoped == [state |-> "none", e |-> 0, id |-> 0]
EmptyScoped == [state |-> "empty", e |-> 0, id |-> 0]
Holding(e, id) == [state |-> "holds", e |-> e, id |-> id]

\* The keys of a set of identities in increasing order.
Sorted(S) == CHOOSE p \in Perms(S) : \A i, j \in 1..Cardinality(S) : i < j => p[i] < p[j]

\* An entry of log.  kind "Notify": the client called Notify(arg) on e, the
\* registry's keys being seen; kind "recv": the handler of (e, id) was
\* called with arg, and seen is what it read from the object.  kind "Set":
\* the client set property id to arg, its field being seen; "raise": the
\* object called Notify(arg) on e, the field being seen; "ret": the call
\* on id returned arg (0 false, 1 true); "unwound": an exception left it.
\* kind "Mutate": the client called a modifier of the collection, id being
\* its ChangeType, arg the <<change, index, oldCount, newCount>> it computed
\* and seen the size; "mutated": the modifier changed _items, seen being
\* the sizes before and after; "noop": the modifier returned at once.
Entry(kind, e, id, arg, seen) ==
    [kind |-> kind, e |-> e, id |-> id, arg |-> arg, seen |-> seen]
\* The calls of the client recorded in log.
Calls == Cardinality({j \in 1..Len(log) : log[j].kind \in {"Notify", "Set", "Mutate", "noop"}})

\* Identities whose token has seen an Unsubscribe call return.
Returned(e) == {id \in DOMAIN tokens[e] : tokens[e][id].returned}

\* No member function of Event e (nor a handler it dispatched) is executing;
\* member functions of its Subscriptions may be.
Idle(e) ==
    \A t \in Threads : \A k \in 1..Len(stack[t]) :
        stack[t][k].e = e => stack[t][k].op \in {"Unsubscribe", "IsValid"}

\* ------------------------------------------------------------------ Init
Init ==
    /\ impl = [e \in AllEvents |-> TRUE]
    /\ locked = [e \in AllEvents |-> {}]
    /\ handlers = [e \in AllEvents |-> {}]
    /\ currentId = [e \in AllEvents |-> 0]
    /\ mutex = [e \in AllEvents |-> 0]
    /\ tokens = [e \in AllEvents \cup {NoEvent} |-> << >>]
    /\ stack = [t \in Threads |-> <<>>]
    /\ exc = [t \in Threads |-> "none"]
    /\ scoped = [s \in Scopes |-> NoScoped]
    /\ field = [p \in Properties |-> 0]
    /\ items = << >>
    /\ log = << >>

\* ------------------------------------------------- Event::Subscribe / Add
Subscribe_call(t, e) ==
    /\ CanCall(t, 1)
    /\ impl[e]
    /\ currentId[e] < MaxSubs
    /\ stack' = Push(t, Frame("Subscribe", e, 0, "lock"))
    /\ UNCHANGED <<impl, locked, handlers, currentId, mutex, tokens, exc, scoped, field, items, log>>

\* Impl::Add: std::lock_guard<std::mutex> lock(mutex)
Add_lock(t) ==
    /\ Running(t, "Subscribe", "lock")
    /\ mutex[Top(t).e] = 0
    /\ mutex' = [mutex EXCEPT ![Top(t).e] = t]
    /\ stack' = SetTop(t, [Top(t) EXCEPT !.pc = "add"])
    /\ UNCHANGED <<impl, locked, handlers, currentId, tokens, exc, scoped, field, items, log>>

\* (variant: the increment is lost, as an unsynchronized ++ may lose it)
NextId_stale(e) == IF currentId[e] = 0 THEN 1 ELSE currentId[e]

\* (variant: the smallest identity not in the registry is taken)
NextId_refill(e) == CHOOSE i \in 1..(currentId[e] + 1) : i \notin handlers[e]

\* The identity Add allocates: int id = ++currentId
NextId(e) == currentId[e] + 1

\* Impl::Add body, unlock, and the Subscription built from the identity
\* (SubscribeScoped: moved into the ScopedSubscription it returns).
Add_body(t) ==
    /\ Running(t, "Subscribe", "add")
    /\ LET e == Top(t).e
           id == NextId(e)
       IN /\ currentId' = [currentId EXCEPT ![e] = id]
          /\ handlers' = [handlers EXCEPT ![e] = @ \cup {id}]
          /\ mutex' = [mutex EXCEPT ![e] = 0]
          /\ tokens' = [tokens EXCEPT ![e] =
                            (id :> [NewToken EXCEPT !.wrapped = (Top(t).self # 0), !.id = id]) @@ @]
          /\ scoped' = IF Top(t).self = 0 THEN scoped
                       ELSE [scoped EXCEPT ![Top(t).self] = Holding(e, id)]
    /\ stack' = [stack EXCEPT ![t] = Pop(t)]
    /\ UNCHANGED <<impl, locked, exc, field, items, log>>

\* ------------------------------------------- Subscription::Unsubscribe
Unsubscribe_call(t, e, id) ==
    /\ CanCall(t, 1)
    /\ id \in DOMAIN tokens[e]
    /\ ~tokens[e][id].wrapped
    /\ stack' = Push(t, Frame("Unsubscribe", e, id, "check"))
    /\ UNCHANGED <<impl, locked, handlers, currentId, mutex, tokens, exc, scoped, field, items, log>>

\* (variant: the removal action is called without the test)
Unsubscribe_check_noTest(t) ==
    /\ Running(t, "Unsubscribe", "check")
    /\ stack' = SetTop(t, [Top(t) EXCEPT !.pc = "closure"])
    /\ UNCHANGED <<impl, locked, handlers, currentId, mutex, tokens, exc, scoped, field, items, log>>

\* if (unsubscribeFunc) ... else return
Unsubscribe_check(t) ==
    /\ Running(t, "Unsubscribe", "check")
    /\ LET e == Top(t).e
           id == Top(t).id
       IN IF tokens[e][id].unsubscribeFunc
          THEN /\ stack' = SetTop(t, [Top(t) EXCEPT !.pc = "closure"])
               /\ UNCHANGED tokens
          ELSE /\ stack' = [stack EXCEPT ![t] = Pop(t)]
               /\ tokens' = [tokens EXCEPT ![e][id].returned = TRUE]
    /\ UNCHANGED <<impl, locked, handlers, currentId, mutex, exc, scoped, field, items, log>>

\* unsubscribeFunc(): auto impl = weakImpl.lock(); if (impl) ...
\* Another thread may have set unsubscribeFunc = nullptr since the check:
\* the call then either still runs the closure or throws bad_function_call.
closure_lock(t) ==
    /\ Running(t, "Unsubscribe", "closure")
    /\ LET e == Top(t).e
           id == Top(t).id
       IN \/ /\ tokens[e][id].weakImpl /\ ImplAlive(e)
             /\ locked' = [locked EXCEPT ![e] = @ \cup {t}]
             /\ stack' = SetTop(t, [Top(t) EXCEPT !.pc = "Remove"])
             /\ UNCHANGED exc
          \/ /\ ~(tokens[e][id].weakImpl /\ ImplAlive(e))
             /\ stack' = SetTop(t, [Top(t) EXCEPT !.pc = "clear"])
             /\ UNCHANGED <<locked, exc>>
          \/ /\ ~tokens[e][id].unsubscribeFunc
             /\ stack' = [stack EXCEPT ![t] = Pop(t)]
             /\ exc' = [exc EXCEPT ![t] = "bad_function_call"]
             /\ UNCHANGED locked
    /\ UNCHANGED <<impl, handlers, currentId, mutex, tokens, scoped, field, items, log>>

\* Impl::Remove: std::lock_guard<std::mutex> lock(mutex)
Remove_lock(t) ==
    /\ Running(t, "Unsubscribe", "Remove")
    /\ mutex[Top(t).e] = 0
    /\ mutex' = [mutex EXCEPT ![Top(t).e] = t]
    /\ stack' = SetTop(t, [Top(t) EXCEPT !.pc = "erase"])
    /\ UNCHANGED <<impl, locked, handlers, currentId, tokens, exc, scoped, field, items, log>>

\* (variant: Remove leaves the map as it is)
Erase_nothing(h, id) == h

\* (variant: the erase takes the other entries with it)
Erase_all(h, id) == {}

\* handlers.erase(id)
Erase(h, id) == h \ {id}

\* Impl::Remove body and unlock
Remove_body(t) ==
    /\ Running(t, "Unsubscribe", "erase")
    /\ handlers' = [handlers EXCEPT ![Top(t).e] = Erase(@, tokens[Top(t).e][Top(t).id].id)]
    /\ mutex' = [mutex EXCEPT ![Top(t).e] = 0]
    /\ stack' = SetTop(t, [Top(t) EXCEPT !.pc = "reset"])
    /\ UNCHANGED <<impl, locked, currentId, tokens, exc, scoped, field, items, log>>

\* weakImpl.reset(); the closure returns and its shared_ptr is released,
\* destroying the Impl (and its map) when it was the last owner.
closure_reset(t) ==
    /\ Running(t, "Unsubscribe", "reset")
    /\ LET e == Top(t).e
           id == Top(t).id
       IN /\ tokens' = [tokens EXCEPT ![e][id].weakImpl = FALSE]
          /\ locked' = [locked EXCEPT ![e] = @ \ {t}]
          /\ handlers' = [handlers EXCEPT ![e] =
                             IF impl[e] \/ locked[e] \ {t} # {} THEN @ ELSE {}]
    /\ stack' = SetTop(t, [Top(t) EXCEPT !.pc = "clear"])
    /\ UNCHANGED <<impl, currentId, mutex, exc, scoped, field, items, log>>

\* (variant: the removal action is never cleared)
Unsubscribe_clear_forgot(t) ==
    /\ Running(t, "Unsubscribe", "clear")
    /\ stack' = SetTop(t, [Top(t) EXCEPT !.pc = "clear2"])
    /\ UNCHANGED <<impl, locked, handlers, currentId, mutex, tokens, exc, scoped, field, items, log>>

\* unsubscribeFunc = nullptr
Unsubscribe_clear(t) ==
    /\ Running(t, "Unsubscribe", "clear")
    /\ tokens' = [tokens EXCEPT ![Top(t).e][Top(t).id].unsubscribeFunc = FALSE]
    /\ stack' = SetTop(t, [Top(t) EXCEPT !.pc = "clear2"])
    /\ UNCHANGED <<impl, locked, handlers, currentId, mutex, exc, scoped, field, items, log>>

\* (variant: the validity probe is never cleared)
Unsubscribe_return_keepValid(t) ==
    /\ Running(t, "Unsubscribe", "clear2")
    /\ tokens' = [tokens EXCEPT ![Top(t).e][Top(t).id].returned = TRUE]
    /\ stack' = [stack EXCEPT ![t] = Pop(t)]
    /\ UNCHANGED <<impl, locked, handlers, currentId, mutex, exc, scoped, field, items, log>>

\* (variant: the copies of a token share their members, so that clearing
\* one clears all)
Unsubscribe_return_shared(t) ==
    /\ Running(t, "Unsubscribe", "clear2")
    /\ LET e == Top(t).e
           id == tokens[e][Top(t).id].id
       IN tokens' = [tokens EXCEPT ![e] =
                        [k \in DOMAIN @ |->
                            IF k = Top(t).id
                            THEN [@[k] EXCEPT !.isValidFunc = FALSE, !.returned = TRUE]
                            ELSE IF @[k].id = id
                            THEN [@[k] EXCEPT !.isValidFunc = FALSE, !.unsubscribeFunc = FALSE]
                            ELSE @[k]]]
    /\ stack' = [stack EXCEPT ![t] = Pop(t)]
    /\ UNCHANGED <<impl, locked, handlers, currentId, mutex, exc, scoped, field, items, log>>

\* isValidFunc = nullptr; return
Unsubscribe_return(t) ==
    /\ Running(t, "Unsubscribe", "clear2")
    /\ tokens' = [tokens EXCEPT ![Top(t).e][Top(t).id] =
                      [@ EXCEPT !.isValidFunc = FALSE, !.returned = TRUE]]
    /\ stack' = [stack EXCEPT ![t] = Pop(t)]
    /\ UNCHANGED <<impl, locked, handlers, currentId, mutex, exc, scoped, field, items, log>>

\* ------------------------------------------------- Subscription::IsValid
IsValid_call(t, e, id) ==
    /\ CanCall(t, 1)
    /\ id \in DOMAIN tokens[e]
    /\ ~tokens[e][id].wrapped
    /\ stack' = Push(t, Frame("IsValid", e, id, "check"))
    /\ UNCHANGED <<impl, locked, handlers, currentId, mutex, tokens, exc, scoped, field, items, log>>

\* return isValidFunc && ...: an empty isValidFunc gives false
IsValid_check(t) ==
    /\ Running(t, "IsValid", "check")
    /\ stack' = SetTop(t, [Top(t) EXCEPT !.pc =
                    IF tokens[Top(t).e][Top(t).id].isValidFunc THEN "probe" ELSE "false"])
    /\ UNCHANGED <<impl, locked, handlers, currentId, mutex, tokens, exc, scoped, field, items, log>>

\* ... isValidFunc(): return !weakImpl.expired().  Another thread may have
\* set isValidFunc = nullptr since the test (an unsynchronized access): the
\* call then still runs the closure it read, or throws bad_function_call.
IsValid_probe(t) ==
    /\ Running(t, "IsValid", "probe")
    /\ LET e == Top(t).e
           id == Top(t).id
       IN \/ /\ stack' = SetTop(t, [Top(t) EXCEPT !.pc =
                             IF ImplAlive(e) THEN "true" ELSE "false"])
             /\ UNCHANGED exc
          \/ /\ ~tokens[e][id].isValidFunc
             /\ stack' = [stack EXCEPT ![t] = Pop(t)]
             /\ exc' = [exc EXCEPT ![t] = "bad_function_call"]
    /\ UNCHANGED <<impl, locked, handlers, currentId, mutex, tokens, scoped, field, items, log>>

IsValid_return(t) ==
    /\ stack[t] # <<>>
    /\ exc[t] = "none"
    /\ Top(t).op = "IsValid"
    /\ Top(t).pc \in {"true", "false"}
    /\ stack' = [stack EXCEPT ![t] = Pop(t)]
    /\ UNCHANGED <<impl, locked, handlers, currentId, mutex, tokens, exc, scoped, field, items, log>>

IsValidStep(t) ==
    \/ \E e \in Events \cup {NoEvent} : \E id \in Ids : IsValid_call(t, e, id)
    \/ IsValid_check(t)
    \/ IsValid_probe(t)
    \/ IsValid_return(t)

\* ------------------------------------------------ Subscription::Subscription()
Default_construct(t) ==
    /\ InClient(t)
    /\ tokens[NoEvent] = << >>
    /\ tokens' = [tokens EXCEPT ![NoEvent] = (1 :> DefaultToken)]
    /\ UNCHANGED <<impl, locked, handlers, currentId, mutex, stack, exc, scoped, field, items, log>>

\* ---------------------------------------------- Event::Notify / Impl::Notify
Notify_call(t, e) ==
    /\ CanCall(t, 2)
    /\ impl[e]
    /\ stack' = Push(t, Frame("Notify", e, 0, "lock"))
    /\ UNCHANGED <<impl, locked, handlers, currentId, mutex, tokens, exc, scoped, field, items, log>>

\* (variant: the registry is iterated without the mutex)
Notify_lock_noMutex(t) ==
    /\ Running(t, "Notify", "lock")
    /\ stack' = SetTop(t, [Top(t) EXCEPT !.pc = "copy"])
    /\ UNCHANGED <<impl, locked, handlers, currentId, mutex, tokens, exc, scoped, field, items, log>>

\* Event<int>::Notify(v), called by the client, which keeps a record.
Notify_call_args(t, e, v) ==
    /\ CanCall(t, 2)
    /\ impl[e]
    /\ Calls < MaxCalls
    /\ stack' = Push(t, [Frame("Notify", e, 0, "lock") EXCEPT !.arg = <<v>>])
    /\ log' = Append(log, Entry("Notify", e, 0, <<v>>, Sorted(handlers[e])))
    /\ UNCHANGED <<impl, locked, handlers, currentId, mutex, tokens, exc, scoped, field, items>>

\* std::lock_guard<std::mutex> lock(mutex)
Notify_lock(t) ==
    /\ Running(t, "Notify", "lock")
    /\ mutex[Top(t).e] = 0
    /\ mutex' = [mutex EXCEPT ![Top(t).e] = t]
    /\ stack' = SetTop(t, [Top(t) EXCEPT !.pc = "copy"])
    /\ UNCHANGED <<impl, locked, handlers, currentId, tokens, exc, scoped, field, items, log>>

\* (variant: the iteration may miss entries of the map)
Snapshot_partial(e) == UNION {Perms(S) : S \in SUBSET handlers[e]}

\* The handlers copied into handlersCopy, in the map's iteration order.
Snapshot(e) == Perms(handlers[e])

\* (variant: the lock is kept while the handlers are called)
Notify_copy_holdLock(t) ==
    /\ Running(t, "Notify", "copy")
    /\ LET e == Top(t).e
       IN \E p \in Perms(handlers[e]) :
             stack' = SetTop(t, [Top(t) EXCEPT
                         !.pc = "call", !.copy = p, !.done = Returned(e),
                         !.valid = {id \in DOMAIN tokens[e] : IsValid(e, id)}])
    /\ UNCHANGED <<impl, locked, handlers, currentId, mutex, tokens, exc, scoped, field, items, log>>

\* for (auto& [id, handler] : handlers) handlersCopy.push_back(handler); unlock
Notify_copy(t) ==
    /\ Running(t, "Notify", "copy")
    /\ LET e == Top(t).e
       IN /\ \E p \in Snapshot(e) :
                stack' = SetTop(t, [Top(t) EXCEPT
                            !.pc = "call", !.copy = p, !.done = Returned(e),
                            !.valid = {id \in DOMAIN tokens[e] : IsValid(e, id)}])
          /\ mutex' = [mutex EXCEPT ![e] = 0]
    /\ UNCHANGED <<impl, locked, handlers, currentId, tokens, exc, scoped, field, items, log>>

\* (variant: the handler is called with value-initialised arguments)
Notify_invoke_noArgs(t) ==
    /\ Running(t, "Notify", "call")
    /\ Top(t).i < Len(Top(t).copy)
    /\ LET f == Top(t)
           id == f.copy[f.i + 1]
       IN stack' = [stack EXCEPT ![t] =
                       Append(Append(Pop(t), [f EXCEPT !.i = f.i + 1]),
                              [Frame("Handler", f.e, id, "run") EXCEPT
                                  !.arg = [j \in 1..Len(f.arg) |-> 0]])]
    /\ UNCHANGED <<impl, locked, handlers, currentId, mutex, tokens, exc, scoped, field, items, log>>

\* (variant: the loop looks the handler up in the registry again and skips
\* it when it is gone)
Notify_invoke_ifRegistered(t) ==
    /\ Running(t, "Notify", "call")
    /\ Top(t).i < Len(Top(t).copy)
    /\ LET f == Top(t)
           id == f.copy[f.i + 1]
       IN stack' = [stack EXCEPT ![t] =
                       IF id \in handlers[f.e]
                       THEN Append(Append(Pop(t), [f EXCEPT !.i = f.i + 1]),
                                   [Frame("Handler", f.e, id, "run") EXCEPT !.arg = f.arg])
                       ELSE Append(Pop(t), [f EXCEPT !.i = f.i + 1])]
    /\ UNCHANGED <<impl, locked, handlers, currentId, mutex, tokens, exc, scoped, field, items, log>>

\* (variant: the loop runs over the registry itself, so that handlers
\* subscribed during the dispatch are appended to what it has to invoke)
Notify_invoke_live(t) ==
    /\ Running(t, "Notify", "call")
    /\ Top(t).i < Len(Top(t).copy)
    /\ LET f == Top(t)
           id == f.copy[f.i + 1]
           more == CHOOSE p \in Perms(handlers[f.e] \ {f.copy[j] : j \in 1..Len(f.copy)}) : TRUE
       IN stack' = [stack EXCEPT ![t] =
                       Append(Append(Pop(t), [f EXCEPT !.i = f.i + 1, !.copy = f.copy \o more]),
                              [Frame("Handler", f.e, id, "run") EXCEPT !.arg = f.arg])]
    /\ UNCHANGED <<impl, locked, handlers, currentId, mutex, tokens, exc, scoped, field, items, log>>

\* for (auto& handler : handlersCopy) handler(args...)
Notify_invoke(t) ==
    /\ Running(t, "Notify", "call")
    /\ Top(t).i < Len(Top(t).copy)
    /\ LET f == Top(t)
           id == f.copy[f.i + 1]
       IN stack' = [stack EXCEPT ![t] =
                       Append(Append(Pop(t), [f EXCEPT !.i = f.i + 1]),
                              [Frame("Handler", f.e, id, "run") EXCEPT !.arg = f.arg])]
    /\ UNCHANGED <<impl, locked, handlers, currentId, mutex, tokens, exc, scoped, field, items, log>>

Notify_return(t) ==
    /\ Running(t, "Notify", "call")
    /\ Top(t).i = Len(Top(t).copy)
    /\ stack' = [stack EXCEPT ![t] = Pop(t)]
    /\ UNCHANGED <<impl, locked, handlers, currentId, mutex, tokens, exc, scoped, field, items, log>>

\* (variant: the loop catches what a handler throws and goes on)
Notify_unwind_swallow(t) ==
    /\ exc[t] # "none"
    /\ stack[t] # <<>>
    /\ Top(t).op = "Notify"
    /\ exc' = [exc EXCEPT ![t] = "none"]
    /\ UNCHANGED <<impl, locked, handlers, currentId, mutex, tokens, stack, scoped, field, items, log>>

\* An exception reaches Impl::Notify, which has no try block: it leaves.
Notify_unwind(t) ==
    /\ exc[t] # "none"
    /\ stack[t] # <<>>
    /\ Top(t).op = "Notify"
    /\ stack' = [stack EXCEPT ![t] = Pop(t)]
    /\ UNCHANGED <<impl, locked, handlers, currentId, mutex, tokens, exc, scoped, field, items, log>>

\* ------------------------------------------------------ handlers (client)
Handler_return(t) ==
    /\ Running(t, "Handler", "run")
    /\ stack' = [stack EXCEPT ![t] = Pop(t)]
    /\ UNCHANGED <<impl, locked, handlers, currentId, mutex, tokens, exc, scoped, field, items, log>>

Handler_throw(t) ==
    /\ Running(t, "Handler", "run")
    /\ stack' = [stack EXCEPT ![t] = Pop(t)]
    /\ exc' = [exc EXCEPT ![t] = "handler"]
    /\ UNCHANGED <<impl, locked, handlers, currentId, mutex, tokens, scoped, field, items, log>>

\* The handler [&](int value) { count += value; }: the values received are
\* recorded, the counter is their sum.
Handler_accumulate(t) ==
    /\ Running(t, "Handler", "run")
    /\ log' = Append(log, Entry("recv", Top(t).e, Top(t).id, Top(t).arg, << >>))
    /\ stack' = [stack EXCEPT ![t] = Pop(t)]
    /\ UNCHANGED <<impl, locked, handlers, currentId, mutex, tokens, exc, scoped, field, items>>

\* An exception of a nested call reaches client code, which catches it
\* (and goes on) or, inside a handler, lets it pass.
Client_catch(t) ==
    /\ exc[t] # "none"
    /\ AtClient(t)
    /\ exc' = [exc EXCEPT ![t] = "none"]
    /\ stack' = IF stack[t] = <<>> THEN stack
                ELSE SetTop(t, [Top(t) EXCEPT !.caught = TRUE])
    /\ UNCHANGED <<impl, locked, handlers, currentId, mutex, tokens, scoped, field, items, log>>

Handler_propagate(t) ==
    /\ exc[t] # "none"
    /\ stack[t] # <<>>
    /\ Top(t).op = "Handler"
    /\ stack' = [stack EXCEPT ![t] = Pop(t)]
    /\ UNCHANGED <<impl, locked, handlers, currentId, mutex, tokens, exc, scoped, field, items, log>>

\* ----------------------------------------------------------- Event::~Event
\* (variant: the registry is one map shared by all Events, and the first
\* Event destroyed empties it)
Destroy_shared(t, e) ==
    /\ InClient(t)
    /\ impl[e]
    /\ Idle(e)
    /\ impl' = [impl EXCEPT ![e] = FALSE]
    /\ handlers' = IF locked[e] = {} THEN [x \in DOMAIN handlers |-> {}] ELSE handlers
    /\ UNCHANGED <<locked, currentId, mutex, tokens, stack, exc, scoped, field, items, log>>

\* The Event releases its shared_ptr; the Impl dies with its last owner.
Destroy(t, e) ==
    /\ InClient(t)
    /\ impl[e]
    /\ Idle(e)
    /\ impl' = [impl EXCEPT ![e] = FALSE]
    /\ handlers' = [handlers EXCEPT ![e] = IF locked[e] = {} THEN {} ELSE @]
    /\ UNCHANGED <<locked, currentId, mutex, tokens, stack, exc, scoped, field, items, log>>

\* ------------------------------------------------------ ScopedSubscription
\* Event::SubscribeScoped: ScopedSubscription(Subscribe(std::move(handler)))
SubscribeScoped_call(t, e, s) ==
    /\ CanCall(t, 1)
    /\ impl[e]
    /\ currentId[e] < MaxSubs
    /\ scoped[s].state = "none"
    /\ stack' = Push(t, [Frame("Subscribe", e, 0, "lock") EXCEPT !.self = s])
    /\ UNCHANGED <<impl, locked, handlers, currentId, mutex, tokens, exc, scoped, field, items, log>>

\* ScopedSubscription() = default: the Subscription inside is empty.
Scoped_default(t, s) ==
    /\ InClient(t)
    /\ scoped[s].state = "none"
    /\ scoped' = [scoped EXCEPT ![s] = EmptyScoped]
    /\ UNCHANGED <<impl, locked, handlers, currentId, mutex, tokens, stack, exc, field, items, log>>

\* ScopedSubscription(ScopedSubscription&& other), building d from s
Scoped_move_call(t, s, d) ==
    /\ CanCall(t, 1)
    /\ s # d
    /\ scoped[s].state # "none"
    /\ scoped[d].state = "none"
    /\ stack' = Push(t, [Frame("MoveConstruct", 0, 0, "move") EXCEPT
                             !.self = d, !.other = s])
    /\ UNCHANGED <<impl, locked, handlers, currentId, mutex, tokens, exc, scoped, field, items, log>>

\* (variant: the move leaves the source's Subscription as it was)
Scoped_move_copy(t) ==
    /\ Running(t, "MoveConstruct", "move")
    /\ scoped' = [scoped EXCEPT ![Top(t).self] = scoped[Top(t).other]]
    /\ stack' = SetTop(t, [Top(t) EXCEPT !.pc = "ret"])
    /\ UNCHANGED <<impl, locked, handlers, currentId, mutex, tokens, exc, field, items, log>>

\* : subscription(std::move(other.subscription)); the moved-from
\* std::function members of other are empty.
Scoped_move(t) ==
    /\ Running(t, "MoveConstruct", "move")
    /\ scoped' = [scoped EXCEPT ![Top(t).self] = scoped[Top(t).other],
                                ![Top(t).other] = EmptyScoped]
    /\ stack' = SetTop(t, [Top(t) EXCEPT !.pc = "ret"])
    /\ UNCHANGED <<impl, locked, handlers, currentId, mutex, tokens, exc, field, items, log>>

Scoped_move_return(t) ==
    /\ Running(t, "MoveConstruct", "ret")
    /\ stack' = [stack EXCEPT ![t] = Pop(t)]
    /\ UNCHANGED <<impl, locked, handlers, currentId, mutex, tokens, exc, scoped, field, items, log>>

\* (variant: the destructor does not unsubscribe)
Scoped_dtor_leak(t, s) ==
    /\ CanCall(t, 1)
    /\ scoped[s].state # "none"
    /\ scoped' = [scoped EXCEPT ![s] = NoScoped]
    /\ UNCHANGED <<impl, locked, handlers, currentId, mutex, tokens, stack, exc, field, items, log>>

\* ~ScopedSubscription(): subscription.Unsubscribe().  On an empty
\* Subscription that call tests unsubscribeFunc and returns.
Scoped_dtor(t, s) ==
    /\ CanCall(t, 1)
    /\ scoped[s].state # "none"
    /\ scoped' = [scoped EXCEPT ![s] = NoScoped]
    /\ stack' = IF scoped[s].state = "holds"
                THEN Push(t, Frame("Unsubscribe", scoped[s].e, scoped[s].id, "check"))
                ELSE stack
    /\ UNCHANGED <<impl, locked, handlers, currentId, mutex, tokens, exc, field, items, log>>

\* operator=(ScopedSubscription&& other)
Scoped_assign_call(t, a, b) ==
    /\ CanCall(t, 2)
    /\ scoped[a].state # "none"
    /\ scoped[b].state # "none"
    /\ stack' = Push(t, [Frame("MoveAssign", 0, 0, "check") EXCEPT
                             !.self = a, !.other = b])
    /\ UNCHANGED <<impl, locked, handlers, currentId, mutex, tokens, exc, scoped, field, items, log>>

\* (variant: the Subscription held is overwritten without Unsubscribe())
Scoped_assign_check_noUnsub(t) ==
    /\ Running(t, "MoveAssign", "check")
    /\ stack' = IF Top(t).self = Top(t).other
                THEN [stack EXCEPT ![t] = Pop(t)]
                ELSE SetTop(t, [Top(t) EXCEPT !.pc = "move"])
    /\ UNCHANGED <<impl, locked, handlers, currentId, mutex, tokens, exc, scoped, field, items, log>>

\* if (this != &other) { subscription.Unsubscribe(); ...
\* (the frame's id keeps the identity whose Subscription this held)
Scoped_assign_check(t) ==
    /\ Running(t, "MoveAssign", "check")
    /\ LET f == Top(t)
           next == [f EXCEPT !.pc = "move", !.id = scoped[f.self].id]
       IN stack' = IF f.self = f.other
                   THEN [stack EXCEPT ![t] = Pop(t)]
                   ELSE IF scoped[f.self].state = "holds"
                        THEN [stack EXCEPT ![t] =
                                 Append(Append(Pop(t), next),
                                        Frame("Unsubscribe", scoped[f.self].e,
                                              scoped[f.self].id, "check"))]
                        ELSE SetTop(t, next)
    /\ UNCHANGED <<impl, locked, handlers, currentId, mutex, tokens, exc, scoped, field, items, log>>

\* ... subscription = std::move(other.subscription); }
Scoped_assign_move(t) ==
    /\ Running(t, "MoveAssign", "move")
    /\ scoped' = [scoped EXCEPT ![Top(t).self] = scoped[Top(t).other],
                                ![Top(t).other] = EmptyScoped]
    /\ stack' = SetTop(t, [Top(t) EXCEPT !.pc = "ret"])
    /\ UNCHANGED <<impl, locked, handlers, currentId, mutex, tokens, exc, field, items, log>>

\* return *this;
Scoped_assign_return(t) ==
    /\ Running(t, "MoveAssign", "ret")
    /\ stack' = [stack EXCEPT ![t] = Pop(t)]
    /\ UNCHANGED <<impl, locked, handlers, currentId, mutex, tokens, exc, scoped, field, items, log>>

ScopedStep(t) ==
    \/ \E e \in Events : \E s \in Scopes : SubscribeScoped_call(t, e, s)
    \/ \E s \in Scopes : Scoped_default(t, s)
    \/ \E s, d \in Scopes : Scoped_move_call(t, s, d)
    \/ Scoped_move(t)
    \/ Scoped_move_return(t)
    \/ \E s \in Scopes : Scoped_dtor(t, s)
    \/ \E a, b \in Scopes : Scoped_assign_call(t, a, b)
    \/ Scoped_assign_check(t)
    \/ Scoped_assign_move(t)
    \/ Scoped_assign_return(t)

\* -------------------------------------------------------- ObservableObject
\* obj.P = v: Property::Set calls the setter, which calls
\* SetPropertyValueAndNotify<&T::P>(field, value).  In the frame, id is the
\* property, arg the value and i the place of the call in log.
Set_call(t, p, v) ==
    /\ exc[t] = "none"
    /\ IF stack[t] = << >> THEN TRUE
       ELSE Top(t).op = "Handler" /\ Top(t).pc = "body"
    /\ Len(stack[t]) + 3 <= MaxNest
    /\ Calls < MaxSets
    /\ stack' = Push(t, [Frame("SetPropertyValueAndNotify", 0, p, "compare") EXCEPT
                             !.arg = <<v>>, !.i = Len(log) + 1])
    /\ log' = Append(log, Entry("Set", 0, p, <<v>>, <<field[p]>>))
    /\ UNCHANGED <<impl, locked, handlers, currentId, mutex, tokens, exc, scoped, field, items>>

\* (variant: there is no comparison, every call notifies)
Set_compare_always(t) ==
    /\ Running(t, "SetPropertyValueAndNotify", "compare")
    /\ stack' = SetTop(t, [Top(t) EXCEPT !.pc = "changing"])
    /\ UNCHANGED <<impl, locked, handlers, currentId, mutex, tokens, exc, scoped, field, items, log>>

\* if (field == value) return false;
Set_compare(t) ==
    /\ Running(t, "SetPropertyValueAndNotify", "compare")
    /\ IF field[Top(t).id] = Top(t).arg[1]
       THEN /\ stack' = [stack EXCEPT ![t] = Pop(t)]
            /\ log' = Append(log, Entry("ret", 0, Top(t).id, <<0>>, <<field[Top(t).id]>>))
       ELSE /\ stack' = SetTop(t, [Top(t) EXCEPT !.pc = "changing"])
            /\ UNCHANGED log
    /\ UNCHANGED <<impl, locked, handlers, currentId, mutex, tokens, exc, scoped, field, items>>

\* The call PropertyChanging.Notify(*this, args) or PropertyChanged.Notify
\* (*this, args) of the frame on top, args naming the frame's property;
\* next is where the frame goes on when Notify has returned.
Raise(t, e, next) ==
    /\ stack' = [stack EXCEPT ![t] =
                    Append(Append(Pop(t), [Top(t) EXCEPT !.pc = next]),
                           [Frame("Notify", e, 0, "lock") EXCEPT !.arg = <<Top(t).id>>])]
    /\ log' = Append(log, Entry("raise", e, Top(t).id, <<Top(t).id>>, <<field[Top(t).id]>>))

\* (variant: the field is assigned before PropertyChanging is raised)
Set_changing_assignFirst(t) ==
    /\ Running(t, "SetPropertyValueAndNotify", "changing")
    /\ field' = [field EXCEPT ![Top(t).id] = Top(t).arg[1]]
    /\ stack' = [stack EXCEPT ![t] =
                    Append(Append(Pop(t), [Top(t) EXCEPT !.pc = "assign"]),
                           [Frame("Notify", PropertyChanging, 0, "lock") EXCEPT
                               !.arg = <<Top(t).id>>])]
    /\ log' = Append(log, Entry("raise", PropertyChanging, Top(t).id, <<Top(t).id>>,
                                <<Top(t).arg[1]>>))
    /\ UNCHANGED <<impl, locked, handlers, currentId, mutex, tokens, exc, scoped, items>>

\* NotifyPropertyChanging<Member>();
Set_changing(t) ==
    /\ Running(t, "SetPropertyValueAndNotify", "changing")
    /\ Raise(t, PropertyChanging, "assign")
    /\ UNCHANGED <<impl, locked, handlers, currentId, mutex, tokens, exc, scoped, field, items>>

\* field = value;
Set_assign(t) ==
    /\ Running(t, "SetPropertyValueAndNotify", "assign")
    /\ field' = [field EXCEPT ![Top(t).id] = Top(t).arg[1]]
    /\ stack' = SetTop(t, [Top(t) EXCEPT !.pc = "changed"])
    /\ UNCHANGED <<impl, locked, handlers, currentId, mutex, tokens, exc, scoped, items, log>>

\* NotifyPropertyChanged<Member>();
Set_changed(t) ==
    /\ Running(t, "SetPropertyValueAndNotify", "changed")
    /\ Raise(t, PropertyChanged, "ret")
    /\ UNCHANGED <<impl, locked, handlers, currentId, mutex, tokens, exc, scoped, field, items>>

\* return true;
Set_return(t) ==
    /\ Running(t, "SetPropertyValueAndNotify", "ret")
    /\ stack' = [stack EXCEPT ![t] = Pop(t)]
    /\ log' = Append(log, Entry("ret", 0, Top(t).id, <<1>>, <<field[Top(t).id]>>))
    /\ UNCHANGED <<impl, locked, handlers, currentId, mutex, tokens, exc, scoped, field, items>>

\* An exception of a handler leaves Notify and reaches the call, which has
\* no try block either.
Set_unwind(t) ==
    /\ exc[t] # "none"
    /\ stack[t] # << >>
    /\ Top(t).op = "SetPropertyValueAndNotify"
    /\ stack' = [stack EXCEPT ![t] = Pop(t)]
    /\ log' = Append(log, Entry("unwound", 0, Top(t).id, << >>, <<field[Top(t).id]>>))
    /\ UNCHANGED <<impl, locked, handlers, currentId, mutex, tokens, exc, scoped, field, items>>

\* A handler of PropertyChanging or PropertyChanged (the tests' handlers):
\* it records the name it is given and the value it reads from the
\* property of that name ...
Observer_record(t) ==
    /\ Running(t, "Handler", "run")
    /\ Top(t).e \in ObjectEvents
    /\ log' = Append(log, Entry("recv", Top(t).e, Top(t).id, Top(t).arg,
                                <<field[Top(t).arg[1]]>>))
    /\ stack' = SetTop(t, [Top(t) EXCEPT !.pc = "body"])
    /\ UNCHANGED <<impl, locked, handlers, currentId, mutex, tokens, exc, scoped, field, items>>

\* ... and then may set properties itself, and returns or throws.
Observer_return(t) ==
    /\ Running(t, "Handler", "body")
    /\ stack' = [stack EXCEPT ![t] = Pop(t)]
    /\ UNCHANGED <<impl, locked, handlers, currentId, mutex, tokens, exc, scoped, field, items, log>>

Observer_throw(t) ==
    /\ Running(t, "Handler", "body")
    /\ stack' = [stack EXCEPT ![t] = Pop(t)]
    /\ exc' = [exc EXCEPT ![t] = "handler"]
    /\ UNCHANGED <<impl, locked, handlers, currentId, mutex, tokens, scoped, field, items, log>>

\* (the handlers are subscribed by the client between its calls)
ObjectStep(t) ==
    \/ \E e \in ObjectEvents : stack[t] = << >> /\ Subscribe_call(t, e)
    \/ Add_lock(t)
    \/ Add_body(t)
    \/ \E p \in Properties : \E v \in Values : Set_call(t, p, v)
    \/ Set_compare(t)
    \/ Set_changing(t)
    \/ Set_assign(t)
    \/ Set_changed(t)
    \/ Set_return(t)
    \/ Set_unwind(t)
    \/ Notify_lock(t)
    \/ Notify_copy(t)
    \/ Notify_invoke(t)
    \/ Notify_return(t)
    \/ Notify_unwind(t)
    \/ Observer_record(t)
    \/ Observer_return(t)
    \/ Observer_throw(t)
    \/ Handler_propagate(t)
    \/ Client_catch(t)

\* ------------------------------------------------------------------ Next
Step(t) ==
    \/ \E e \in Events : Subscribe_call(t, e)
    \/ Add_lock(t)
    \/ Add_body(t)
    \/ \E e \in Events : \E id \in Ids : Unsubscribe_call(t, e, id)
    \/ Unsubscribe_check(t)
    \/ closure_lock(t)
    \/ Remove_lock(t)
    \/ Remove_body(t)
    \/ closure_reset(t)
    \/ Unsubscribe_clear(t)
    \/ Unsubscribe_return(t)
    \/ \E e \in Events : Notify_call(t, e)
    \/ Notify_lock(t)
    \/ Notify_copy(t)
    \/ Notify_invoke(t)
    \/ Notify_return(t)
    \/ Notify_unwind(t)
    \/ Handler_return(t)
    \/ Handler_throw(t)
    \/ Client_catch(t)
    \/ Handler_propagate(t)
    \/ \E e \in Events : Destroy(t, e)

\* One client thread (calls nest through handlers, nothing runs in parallel).
Next == Step(1)
Spec == Init /\ [][Next]_vars

\* One client thread that also keeps ScopedSubscription objects.
NextScoped == Step(1) \/ ScopedStep(1)
SpecScoped == Init /\ [][NextScoped]_vars

\* One client thread that also builds a Subscription by default and asks
\* tokens whether they are valid.
NextDefault ==
    \/ Step(1)
    \/ Default_construct(1)
    \/ Unsubscribe_call(1, NoEvent, 1)
    \/ IsValidStep(1)
SpecDefault == Init /\ [][NextDefault]_vars

\* One client thread, and a second thread that asks the same tokens
\* whether they are valid.
NextValid == Step(1) \/ IsValidStep(2) \/ Client_catch(2)
SpecValid == Init /\ [][NextValid]_vars

\* One client thread using an Event<int> whose handlers add what they
\* receive to a counter and make no calls of their own.
ArgsStep(t) ==
    \/ \E e \in Events : Subscribe_call(t, e)
    \/ Add_lock(t)
    \/ Add_body(t)
    \/ \E e \in Events : \E id \in Ids : Unsubscribe_call(t, e, id)
    \/ Unsubscribe_check(t)
    \/ closure_lock(t)
    \/ Remove_lock(t)
    \/ Remove_body(t)
    \/ closure_reset(t)
    \/ Unsubscribe_clear(t)
    \/ Unsubscribe_return(t)
    \/ \E e \in Events : \E v \in Values : Notify_call_args(t, e, v)
    \/ Notify_lock(t)
    \/ Notify_copy(t)
    \/ Notify_invoke(t)
    \/ Notify_return(t)
    \/ Handler_accumulate(t)
NextArgs == ArgsStep(1) /\ Len(stack'[1]) <= 2
SpecArgs == Init /\ [][NextArgs]_vars

\* One client thread (its handlers make no calls of their own), and a
\* second thread that asks tokens whether they are valid and may be the
\* one that destroys the Event.
NextTeardown ==
    \/ Step(1) /\ Len(stack'[1]) <= 2
    \/ IsValidStep(2)
    \/ Client_catch(2)
    \/ \E e \in Events : Destroy(2, e)
SpecTeardown == Init /\ [][NextTeardown]_vars

\* One client thread that sets the properties of an ObservableObject and
\* subscribes handlers to its two events.
NextObject == ObjectStep(1)
SpecObject == Init /\ [][NextObject]_vars

\* ------------------------------------------------- ObservableCollection<T>
\* The modifiers: push_back stands for emplace_back too, insert for
\* emplace; eraseRange is erase(first, last).
Modifiers == {"push_back", "insert", "erase", "eraseRange", "clear"}
\* The frame of a modifier keeps the position it was given in other (pos -
\* cbegin(), first - cbegin()), the value or the number of elements to
\* remove (last - first) in id, and the locals change, index, oldCount,
\* newCount in arg.
Modifying(t, pc) ==
    /\ stack[t] # << >>
    /\ Top(t).op \in Modifiers
    /\ Top(t).pc = pc
    /\ exc[t] = "none"

\* The sequences _items may hold.
AnyItems == UNION {[1..n -> Values] : n \in 0..MaxMutations}
InsertAt(its, k, v) == SubSeq(its, 1, k) \o <<v>> \o SubSeq(its, k + 1, Len(its))
RemoveAt(its, k, n) == SubSeq(its, 1, k) \o SubSeq(its, k + n + 1, Len(its))

\* _items was changed after the call of frame f began, by a handler: the
\* iterators f was given are no longer valid.
Invalidated(f) == \E j \in (f.i + 1)..Len(log) : log[j].kind = "mutated"

\* The locals a modifier computes before it notifies.
ChangeOf(op) ==
    CASE op = "push_back" -> Add
      [] op = "insert" -> Insert
      [] op \in {"erase", "eraseRange"} -> Remove
      [] op = "clear" -> Clear
ArgsOf(op, pos, n) ==
    CASE op = "push_back" -> <<Add, Len(items), Len(items), Len(items) + 1>>
      [] op = "insert" -> <<Insert, pos, Len(items), Len(items) + 1>>
      [] op = "erase" ->
            <<Remove, pos, Len(items), IF Len(items) > 0 THEN Len(items) - 1 ELSE 0>>
      [] op = "eraseRange" -> <<Remove, pos, Len(items), Len(items) - n>>
      [] op = "clear" -> <<Clear, 0, Len(items), 0>>

\* What the call is allowed to be given: a position inside the sequence
\* (or at its end, for insert), a range inside the sequence.
ValidCall(op, pos, n) ==
    CASE op = "push_back" -> pos = 0 /\ n \in Values
      [] op = "insert" -> pos \in 0..Len(items) /\ n \in Values
      [] op = "erase" -> pos \in 0..(Len(items) - 1) /\ n = 1
      [] op = "eraseRange" -> n >= 1 /\ pos >= 0 /\ pos + n <= Len(items)
      [] op = "clear" -> pos = 0 /\ n = 0 /\ items # << >>

\* Client code (at top level, or in the body of a handler of the
\* collection's events) calls a modifier, which computes its locals.
Modifier_call(t, op, pos, n) ==
    /\ exc[t] = "none"
    /\ IF stack[t] = << >> THEN TRUE
       ELSE Top(t).op = "Handler" /\ Top(t).pc = "body" /\ Top(t).e \in CollectionEvents
    /\ Len(stack[t]) + 3 <= MaxNest
    /\ Calls < MaxMutations
    /\ ValidCall(op, pos, n)
    /\ stack' = Push(t, [Frame(op, 0, n, "changing") EXCEPT
                             !.other = pos, !.arg = ArgsOf(op, pos, n), !.i = Len(log) + 1])
    /\ log' = Append(log, Entry("Mutate", 0, ChangeOf(op), ArgsOf(op, pos, n), <<Len(items)>>))
    /\ UNCHANGED <<impl, locked, handlers, currentId, mutex, tokens, exc, scoped, field, items>>

\* (variant: clear() and erase(first, last) do not test for the empty case
\* and go through their notifications)
Modifier_noop_notifies(t, op) ==
    /\ exc[t] = "none"
    /\ IF stack[t] = << >> THEN TRUE
       ELSE Top(t).op = "Handler" /\ Top(t).pc = "body" /\ Top(t).e \in CollectionEvents
    /\ Len(stack[t]) + 3 <= MaxNest
    /\ Calls < MaxMutations
    /\ op \in {"clear", "eraseRange"}
    /\ op = "clear" => items = << >>
    /\ stack' = Push(t, [Frame(op, 0, 0, "changing") EXCEPT
                             !.arg = ArgsOf(op, 0, 0), !.i = Len(log) + 1])
    /\ log' = Append(log, Entry("Mutate", 0, ChangeOf(op), ArgsOf(op, 0, 0), <<Len(items)>>))
    /\ UNCHANGED <<impl, locked, handlers, currentId, mutex, tokens, exc, scoped, field, items>>

\* clear() of an empty collection, erase(first, last) with first == last:
\* the modifier returns at once.
Modifier_noop(t, op) ==
    /\ exc[t] = "none"
    /\ IF stack[t] = << >> THEN TRUE
       ELSE Top(t).op = "Handler" /\ Top(t).pc = "body" /\ Top(t).e \in CollectionEvents
    /\ Calls < MaxMutations
    /\ op \in {"clear", "eraseRange"}
    /\ op = "clear" => items = << >>
    /\ log' = Append(log, Entry("noop", 0, ChangeOf(op), << >>, <<Len(items)>>))
    /\ UNCHANGED <<impl, locked, handlers, currentId, mutex, tokens, stack, exc, scoped, field, items>>

\* The call CollectionChanging.Notify(*this, args) or CollectionChanged.
\* Notify(*this, args) of the frame on top, args being built from its
\* locals; next is where the frame goes on when Notify has returned.
RaiseCollection(t, e, next) ==
    /\ stack' = [stack EXCEPT ![t] =
                    Append(Append(Pop(t), [Top(t) EXCEPT !.pc = next]),
                           [Frame("Notify", e, 0, "lock") EXCEPT !.arg = Top(t).arg])]
    /\ log' = Append(log, Entry("raise", e, Top(t).arg[1], Top(t).arg, <<Len(items)>>))

\* NotifyCollectionChanging(change, index, oldCount, newCount);
Modifier_changing(t) ==
    /\ \E pc \in {"changing"} : Modifying(t, pc)
    /\ RaiseCollection(t, CollectionChanging, "mutate")
    /\ UNCHANGED <<impl, locked, handlers, currentId, mutex, tokens, exc, scoped, field, items>>

\* (variant: the sizes are those of the code, the vector is left alone)
Mutated_nothing(f, its) == {its}

\* What the call of the std::vector modifier makes of _items.  With
\* iterators that a handler has invalidated, insert and erase have
\* undefined behaviour.
Mutated(f, its) ==
    CASE f.op = "push_back" -> {Append(its, f.id)}
      [] f.op = "clear" -> {<< >>}
      [] f.op = "insert" ->
            IF Invalidated(f) THEN AnyItems ELSE {InsertAt(its, f.other, f.id)}
      [] f.op \in {"erase", "eraseRange"} ->
            IF Invalidated(f) THEN AnyItems ELSE {RemoveAt(its, f.other, f.id)}

\* _items.push_back(value); _items.insert(pos, value); _items.erase(pos);
\* _items.erase(first, last); _items.clear();
Modifier_mutate(t) ==
    /\ \E pc \in {"mutate"} : Modifying(t, pc)
    /\ \E its \in Mutated(Top(t), items) :
          /\ items' = its
          /\ log' = Append(log, Entry("mutated", 0, Top(t).arg[1], Top(t).arg,
                                      <<Len(items), Len(its)>>))
    /\ stack' = SetTop(t, [Top(t) EXCEPT !.pc = "changed"])
    /\ UNCHANGED <<impl, locked, handlers, currentId, mutex, tokens, exc, scoped, field>>

\* NotifyCollectionChanged(change, index, oldCount, newCount);
Modifier_changed(t) ==
    /\ \E pc \in {"changed"} : Modifying(t, pc)
    /\ RaiseCollection(t, CollectionChanged, "ret")
    /\ UNCHANGED <<impl, locked, handlers, currentId, mutex, tokens, exc, scoped, field, items>>

\* return it; (or the end of the function)
Modifier_return(t) ==
    /\ \E pc \in {"ret"} : Modifying(t, pc)
    /\ stack' = [stack EXCEPT ![t] = Pop(t)]
    /\ log' = Append(log, Entry("ret", 0, Top(t).arg[1], Top(t).arg, <<Len(items)>>))
    /\ UNCHANGED <<impl, locked, handlers, currentId, mutex, tokens, exc, scoped, field, items>>

\* An exception of a handler leaves Notify and reaches the modifier, which
\* has no try block.
Modifier_unwind(t) ==
    /\ exc[t] = "handler"
    /\ stack[t] # << >>
    /\ Top(t).op \in Modifiers \ {"clear"}
    /\ stack' = [stack EXCEPT ![t] = Pop(t)]
    /\ log' = Append(log, Entry("unwound", 0, Top(t).arg[1], Top(t).arg, <<Len(items)>>))
    /\ UNCHANGED <<impl, locked, handlers, currentId, mutex, tokens, exc, scoped, field, items>>

\* void clear() noexcept: the exception cannot leave, std::terminate is
\* called and nothing runs any more.
clear_terminate(t) ==
    /\ exc[t] = "handler"
    /\ stack[t] # << >>
    /\ Top(t).op = "clear"
    /\ exc' = [exc EXCEPT ![t] = "terminate"]
    /\ UNCHANGED <<impl, locked, handlers, currentId, mutex, tokens, stack, scoped, field, items, log>>

\* A handler of CollectionChanging or CollectionChanged (the tests'
\* handlers): it records the args it is given and the size it reads ...
Watcher_record(t) ==
    /\ Running(t, "Handler", "run")
    /\ Top(t).e \in CollectionEvents
    /\ log' = Append(log, Entry("recv", Top(t).e, Top(t).id, Top(t).arg, <<Len(items)>>))
    /\ stack' = SetTop(t, [Top(t) EXCEPT !.pc = "body"])
    /\ UNCHANGED <<impl, locked, handlers, currentId, mutex, tokens, exc, scoped, field, items>>

\* Property<size_type> Count, built with the getter [this]() { return
\* _items.size(); } and the setter [](size_type&) {}.
Count_get(its) == Len(its)
\* (variant: the setter resizes the collection)
Count_set_resize(its, v) ==
    IF v <= Len(its) THEN SubSeq(its, 1, v)
    ELSE its \o [k \in 1..(v - Len(its)) |-> 0]
Count_set(its, v) == its

\* Client code reads Count between its calls (Property::Get, operator
\* PropType) ...
Count_Get_call(t) ==
    /\ exc[t] = "none"
    /\ stack[t] = << >>
    /\ stack' = Push(t, Frame("Get", 0, 0, "get"))
    /\ UNCHANGED <<impl, locked, handlers, currentId, mutex, tokens, exc, scoped, field, items, log>>

\* if (_get) return _get();
Count_Get_body(t) ==
    /\ Running(t, "Get", "get")
    /\ stack' = SetTop(t, [Top(t) EXCEPT !.pc = "ret", !.arg = <<Count_get(items)>>])
    /\ UNCHANGED <<impl, locked, handlers, currentId, mutex, tokens, exc, scoped, field, items, log>>

\* ... or writes it (Property::Set, operator=).
Count_Set_call(t, v) ==
    /\ exc[t] = "none"
    /\ stack[t] = << >>
    /\ stack' = Push(t, [Frame("Set", 0, 0, "set") EXCEPT !.arg = <<v>>])
    /\ UNCHANGED <<impl, locked, handlers, currentId, mutex, tokens, exc, scoped, field, items, log>>

\* if (_set) _set(value);
Count_Set_body(t) ==
    /\ Running(t, "Set", "set")
    /\ items' = Count_set(items, Top(t).arg[1])
    /\ stack' = SetTop(t, [Top(t) EXCEPT !.pc = "ret"])
    /\ UNCHANGED <<impl, locked, handlers, currentId, mutex, tokens, exc, scoped, field, log>>

Count_return(t) ==
    /\ \E op \in {"Get", "Set"} : Running(t, op, "ret")
    /\ stack' = [stack EXCEPT ![t] = Pop(t)]
    /\ UNCHANGED <<impl, locked, handlers, currentId, mutex, tokens, exc, scoped, field, items, log>>

\* (the handlers are subscribed by the client before its first call)
CollectionStep(t) ==
    \/ \E e \in CollectionEvents :
          stack[t] = << >> /\ log = << >> /\ currentId[e] < MaxWatchers /\ Subscribe_call(t, e)
    \/ Add_lock(t)
    \/ Add_body(t)
    \/ \E op \in Modifiers : \E pos \in 0..MaxMutations : \E n \in 0..MaxMutations :
          Modifier_call(t, op, pos, n)
    \/ \E op \in Modifiers : Modifier_noop(t, op)
    \/ Modifier_changing(t)
    \/ Modifier_mutate(t)
    \/ Modifier_changed(t)
    \/ Modifier_return(t)
    \/ Modifier_unwind(t)
    \/ clear_terminate(t)
    \/ Notify_lock(t)
    \/ Notify_copy(t)
    \/ Notify_invoke(t)
    \/ Notify_return(t)
    \/ Notify_unwind(t)
    \/ Watcher_record(t)
    \/ Observer_return(t)
    \/ Observer_throw(t)
    \/ Handler_propagate(t)
    \/ Client_catch(t)

\* One client thread that modifies an ObservableCollection and subscribes
\* handlers to its two events.
NextCollection == CollectionStep(1)
SpecCollection == Init /\ [][NextCollection]_vars

\* One client thread that modifies an ObservableCollection nobody has
\* subscribed to, and reads and writes its Count between the calls.
CountStep(t) ==
    \/ \E op \in Modifiers : \E pos \in 0..MaxMutations : \E n \in 0..MaxMutations :
          Modifier_call(t, op, pos, n)
    \/ \E op \in Modifiers : Modifier_noop(t, op)
    \/ Modifier_changing(t)
    \/ Modifier_mutate(t)
    \/ Modifier_changed(t)
    \/ Modifier_return(t)
    \/ Notify_lock(t)
    \/ Notify_copy(t)
    \/ Notify_return(t)
    \/ Count_Get_call(t)
    \/ Count_Get_body(t)
    \/ \E v \in 0..MaxMutations : Count_Set_call(t, v)
    \/ Count_Set_body(t)
    \/ Count_return(t)
NextCount == CountStep(1)
SpecCount == Init /\ [][NextCount]_vars

\* Several client threads; their handlers make no calls of their own.
NextMT == \E t \in Threads : Step(t) /\ Len(stack'[t]) <= 2
SpecMT == Init /\ [][NextMT]_vars

\* Two client threads; the handlers thread 1 dispatches make calls of
\* their own (Subscribe, Unsubscribe, Notify), those of thread 2 do not.
NextDispatch == \E t \in Threads : Step(t) /\ Len(stack'[t]) <= (IF t = 1 THEN 3 ELSE 2)
SpecDispatch == Init /\ [][NextDispatch]_vars

\* Two client threads that subscribe, unsubscribe and notify; the handlers
\* thread 1 dispatches may subscribe and unsubscribe, and every handler
\* returns.  Library(t) are the steps the library takes inside a call once
\* the client has made it, Client(t) the calls client code makes.
Library(t) ==
    \/ Add_lock(t)
    \/ Add_body(t)
    \/ Unsubscribe_check(t)
    \/ closure_lock(t)
    \/ Remove_lock(t)
    \/ Remove_body(t)
    \/ closure_reset(t)
    \/ Unsubscribe_clear(t)
    \/ Unsubscribe_return(t)
    \/ Notify_lock(t)
    \/ Notify_copy(t)
    \/ Notify_invoke(t)
    \/ Notify_return(t)
    \/ Notify_unwind(t)
    \/ Handler_propagate(t)
Client(t) ==
    \/ \E e \in Events : Subscribe_call(t, e)
    \/ \E e \in Events : \E id \in Ids : Unsubscribe_call(t, e, id)
    \/ \E e \in Events : stack[t] = << >> /\ Notify_call(t, e)
    \/ Client_catch(t)
\* (the stack bound of the run: thread 2's handlers make no calls)
Within(t) == Len(stack'[t]) <= (IF t = 1 THEN 3 ELSE 2)
NextLive ==
    \E t \in Threads : (Library(t) \/ Client(t) \/ Handler_return(t)) /\ Within(t)
\* Fair scheduling: a thread that can go on inside the library again and
\* again does go on (a thread waiting for the mutex gets it at some
\* release), and a handler returns after finitely many calls of its own.
Fair(t) == SF_vars(Library(t) /\ Within(t)) /\ SF_vars(Handler_return(t))
SpecLive == Init /\ [][NextLive]_vars /\ \A t \in Threads : Fair(t)

\* ------------------------------------------- copies and ends of tokens
\* The name under which the client keeps its copy of token k.
CopyOf(k) == k + MaxSubs
CopyIds == {CopyOf(k) : k \in Ids}
\* A member function of token k of e is executing.
TokenInUse(e, k) ==
    \E t \in Threads : \E j \in 1..Len(stack[t]) :
        stack[t][j].op \in {"Unsubscribe", "IsValid"} /\ stack[t][j].e = e /\ stack[t][j].id = k

\* Subscription's implicit copy constructor: both std::function members
\* are copied, with what their closures have captured.
Token_copy(t, e, k) ==
    /\ InClient(t)
    /\ k \in DOMAIN tokens[e]
    /\ ~tokens[e][k].wrapped
    /\ CopyOf(k) \notin DOMAIN tokens[e]
    /\ ~TokenInUse(e, k)
    /\ tokens' = [tokens EXCEPT ![e] = (CopyOf(k) :> [@[k] EXCEPT !.returned = FALSE]) @@ @]
    /\ UNCHANGED <<impl, locked, handlers, currentId, mutex, stack, exc, scoped, field, items, log>>

\* (variant: the token's destructor unsubscribes, as a ScopedSubscription's does)
Token_destroy_unsubscribes(t, e, k) ==
    /\ InClient(t)
    /\ k \in DOMAIN tokens[e]
    /\ ~tokens[e][k].wrapped
    /\ ~TokenInUse(e, k)
    /\ tokens' = [tokens EXCEPT ![e] = [x \in DOMAIN @ \ {k} |-> @[x]]]
    /\ handlers' = [handlers EXCEPT ![e] = @ \ {tokens[e][k].id}]
    /\ UNCHANGED <<impl, locked, currentId, mutex, stack, exc, scoped, field, items, log>>

\* Subscription's implicit destructor (the token goes out of scope): its
\* two std::function members are destroyed, and the weak_ptrs in them.
Token_destroy(t, e, k) ==
    /\ InClient(t)
    /\ k \in DOMAIN tokens[e]
    /\ ~tokens[e][k].wrapped
    /\ ~TokenInUse(e, k)
    /\ tokens' = [tokens EXCEPT ![e] = [x \in DOMAIN @ \ {k} |-> @[x]]]
    /\ UNCHANGED <<impl, locked, handlers, currentId, mutex, stack, exc, scoped, field, items, log>>

\* One client thread that copies its tokens, lets tokens go out of scope
\* and calls Unsubscribe on the copies as on the originals.
TokenStep(t) ==
    \/ Step(t)
    \/ \E e \in Events : \E k \in Ids : Token_copy(t, e, k)
    \/ \E e \in Events : \E k \in Ids \cup CopyIds : Token_destroy(t, e, k)
    \/ \E e \in Events : \E k \in CopyIds : Unsubscribe_call(t, e, k)
NextTokens == TokenStep(1)
SpecTokens == Init /\ [][NextTokens]_vars

\* One client thread that keeps two Events, event1 and event2, and whose
\* handlers (of either) call Subscribe, Unsubscribe, Notify and the
\* destructor of either.
IndependentStep(t) ==
    \/ \E e \in {event1, event2} : Subscribe_call(t, e)
    \/ Add_lock(t)
    \/ Add_body(t)
    \/ \E e \in {event1, event2} : \E id \in Ids : Unsubscribe_call(t, e, id)
    \/ Unsubscribe_check(t)
    \/ closure_lock(t)
    \/ Remove_lock(t)
    \/ Remove_body(t)
    \/ closure_reset(t)
    \/ Unsubscribe_clear(t)
    \/ Unsubscribe_return(t)
    \/ \E e \in {event1, event2} : Notify_call(t, e)
    \/ Notify_lock(t)
    \/ Notify_copy(t)
    \/ Notify_invoke(t)
    \/ Notify_return(t)
    \/ Notify_unwind(t)
    \/ Handler_return(t)
    \/ Handler_throw(t)
    \/ Client_catch(t)
    \/ Handler_propagate(t)
    \/ \E e \in {event1, event2} : Destroy(t, e)
NextIndependent == IndependentStep(1)
SpecIndependent == Init /\ [][NextIndependent]_vars

\* ------------------------------------------- handlers that notify onwards
\* The Event the handlers of e notify: event1 -> event2 -> event3.
NextInChain(e) == IF e = event1 THEN event2 ELSE event3

\* [&](int v) { countN += v; ... }: the handler records what it is given.
Chain_receive(t) ==
    /\ Running(t, "Handler", "run")
    /\ Top(t).e \in ChainEvents
    /\ log' = Append(log, Entry("recv", Top(t).e, Top(t).id, Top(t).arg, <<t>>))
    /\ stack' = SetTop(t, [Top(t) EXCEPT !.pc = IF Top(t).e = event3 THEN "done" ELSE "body"])
    /\ UNCHANGED <<impl, locked, handlers, currentId, mutex, tokens, exc, scoped, field, items>>

\* (variant: Notify only queues the notification for a later delivery)
Chain_forward_queued(t) ==
    /\ Running(t, "Handler", "body")
    /\ Top(t).e \in {event1, event2}
    /\ stack' = SetTop(t, [Top(t) EXCEPT !.pc = "done"])
    /\ UNCHANGED <<impl, locked, handlers, currentId, mutex, tokens, exc, scoped, field, items, log>>

\* ... eventN+1.Notify(v * 2): the handler of event1 or event2 notifies the
\* next Event.
Chain_forward(t) ==
    /\ Running(t, "Handler", "body")
    /\ Top(t).e \in {event1, event2}
    /\ Len(stack[t]) + 2 <= MaxNest
    /\ impl[NextInChain(Top(t).e)]
    /\ stack' = [stack EXCEPT ![t] =
                    Append(Append(Pop(t), [Top(t) EXCEPT !.pc = "done"]),
                           [Frame("Notify", NextInChain(Top(t).e), 0, "lock") EXCEPT
                               !.arg = <<Top(t).arg[1] * 2>>])]
    /\ UNCHANGED <<impl, locked, handlers, currentId, mutex, tokens, exc, scoped, field, items, log>>

\* The handler's body has come to its end.
Chain_return(t) ==
    /\ Running(t, "Handler", "done")
    /\ log' = Append(log, Entry("done", Top(t).e, Top(t).id, Top(t).arg, <<t>>))
    /\ stack' = [stack EXCEPT ![t] = Pop(t)]
    /\ UNCHANGED <<impl, locked, handlers, currentId, mutex, tokens, exc, scoped, field, items>>

\* One client thread that subscribes handlers to event1, event2 and event3,
\* those of event1 and event2 notifying the next Event, and then calls
\* event1.Notify(v) once; a handler may throw instead of doing its work.
ChainStep(t) ==
    \/ \E e \in ChainEvents : stack[t] = << >> /\ log = << >> /\ Subscribe_call(t, e)
    \/ Add_lock(t)
    \/ Add_body(t)
    \/ \E v \in Values : stack[t] = << >> /\ Calls = 0 /\ Notify_call_args(t, event1, v)
    \/ Notify_lock(t)
    \/ Notify_copy(t)
    \/ Notify_invoke(t)
    \/ Notify_return(t)
    \/ Notify_unwind(t)
    \/ Chain_receive(t)
    \/ Chain_forward(t)
    \/ Chain_return(t)
    \/ Handler_throw(t)
    \/ Handler_propagate(t)
    \/ stack[t] = << >> /\ Client_catch(t)
NextChain == ChainStep(1)
SpecChain == Init /\ [][NextChain]_vars

\* =================================================================
\* Properties
\* =================================================================
Range(s) == {s[i] : i \in 1..Len(s)}
Tokens(e) == DOMAIN tokens[e]
HasFrame(t, k, op) == k \in 1..Len(stack[t]) /\ stack[t][k].op = op
\* An Unsubscribe call on the token of (e, id) is executing on some thread.
InFlight(e, id) ==
    \E t \in Threads : \E k \in 1..Len(stack[t]) :
        stack[t][k].op = "Unsubscribe" /\ stack[t][k].e = e /\ stack[t][k].id = id
\* Frame k of t is a Notify that has taken its copy of the handlers.
Dispatching(t, k) == HasFrame(t, k, "Notify") /\ stack[t][k].pc = "call"
\* ... and every handler of the copy has been invoked and has returned.
Complete(t, k) ==
    /\ Dispatching(t, k)
    /\ k = Len(stack[t])
    /\ exc[t] = "none"
    /\ stack[t][k].i = Len(stack[t][k].copy)
\* How often the Notify of frame f has invoked the handler of identity id.
Invocations(f, id) == Cardinality({j \in 1..f.i : f.copy[j] = id})

\* C1: once an Event is destroyed, IsValid() is false on every token it
\* handed out (unsubscribed before or not), and every step of an
\* Unsubscribe() call on such a token leaves the registry, the ownership
\* of the Impl and the mutex untouched and raises nothing.
C1_DestroyedEventInvalidatesTokens ==
    [][\A e \in Events : ~impl'[e] =>
          /\ \A id \in DOMAIN tokens'[e] : ~IsValid(e, id)'
          /\ \A t \in Threads :
                (/\ ~impl[e]
                 /\ HasFrame(t, Len(stack[t]), "Unsubscribe")
                 /\ Top(t).e = e
                 /\ stack'[t] # stack[t])
                => /\ UNCHANGED <<handlers, currentId, impl, locked, mutex>>
                   /\ exc'[t] = "none"
                   /\ Len(stack'[t]) <= Len(stack[t])]_vars

\* Token 1 was unsubscribed while the Event lived, then the Event was
\* destroyed, and Unsubscribe() on token 2 found the Impl gone.
C1_Witness ==
    /\ ~impl[1]
    /\ {1, 2} \subseteq Tokens(1)
    /\ tokens[1][1].returned /\ ~tokens[1][1].weakImpl
    /\ tokens[1][2].weakImpl
    /\ HasFrame(1, Len(stack[1]), "Unsubscribe")
    /\ Top(1).id = 2 /\ Top(1).pc = "clear2"

\* C2: a Notify that takes its copy after Unsubscribe() of a token has
\* returned never invokes that token's handler, and when it returns it has
\* invoked every handler that was still validly subscribed exactly once.
C2_UnsubscribedNotInvokedOthersOnce ==
    \A t \in Threads : \A k \in 1..Len(stack[t]) :
        Dispatching(t, k) =>
            LET f == stack[t][k]
            IN /\ f.done \cap Range(f.copy) = {}
               /\ Complete(t, k) => \A id \in f.valid : Invocations(f, id) = 1

\* H1 (token 1) was unsubscribed before the Notify, H2 has been invoked.
C2_Witness ==
    /\ Complete(1, 1)
    /\ stack[1][1].done = {1}
    /\ stack[1][1].copy = <<2>>

\* The Notify on top of t's stack is about to end: normally, or by the
\* exception of the handler it invoked last.
Ending(t) ==
    /\ Dispatching(t, Len(stack[t]))
    /\ exc[t] # "none" \/ Top(t).i = Len(Top(t).copy)

C4_UnsubscribeOneShot ==
    [][\A e \in Events : \A id \in Tokens(e) : tokens[e][id].returned =>
          /\ ~tokens'[e][id].unsubscribeFunc
          /\ ~tokens'[e][id].isValidFunc
          /\ ~IsValid(e, id)'
          /\ \A t \in Threads :
                (/\ HasFrame(t, Len(stack[t]), "Unsubscribe")
                 /\ Top(t).e = e /\ Top(t).id = id
                 /\ stack'[t] # stack[t])
                => /\ stack'[t] = Pop(t)
                   /\ UNCHANGED <<handlers, currentId, tokens, impl, locked, mutex, exc>>]_vars

\* A second Unsubscribe() on token 1 while handler 2 is registered.
C4_Witness ==
    /\ HasFrame(1, Len(stack[1]), "Unsubscribe")
    /\ Top(1).id = 1 /\ Top(1).pc = "check"
    /\ tokens[1][1].returned
    /\ handlers[1] = {2}

SelfUnsubscribing(t, k) ==
    /\ HasFrame(t, k, "Handler")
    /\ HasFrame(t, k + 1, "Unsubscribe")
    /\ stack[t][k + 1].e = stack[t][k].e
    /\ stack[t][k + 1].id = stack[t][k].id

\* C6: while a handler unsubscribes its own token, the Notify that invoked
\* it has invoked it exactly once, nothing is raised and, when Remove
\* comes to lock the mutex, the thread does not hold it already; and no
\* Notify that takes its copy after that Unsubscribe() returned has the
\* handler in its copy.
C6_SelfUnsubscribeOnceThenNever ==
    \A t \in Threads : \A k \in 1..Len(stack[t]) :
        /\ SelfUnsubscribing(t, k) =>
              /\ exc[t] = "none"
              /\ stack[t][k + 1].pc = "Remove" => mutex[stack[t][k].e] # t
              /\ Dispatching(t, k - 1)
              /\ Invocations(stack[t][k - 1], stack[t][k].id) = 1
        /\ Dispatching(t, k) => stack[t][k].done \cap Range(stack[t][k].copy) = {}

\* The only handler unsubscribed itself while running, then called Notify
\* again: the inner Notify has an empty copy.
C6_Witness ==
    /\ Tokens(1) = {1}
    /\ Len(stack[1]) = 3
    /\ Dispatching(1, 1) /\ stack[1][1].copy = <<1>> /\ stack[1][1].done = {}
    /\ HasFrame(1, 2, "Handler")
    /\ Dispatching(1, 3) /\ stack[1][3].done = {1} /\ stack[1][3].copy = <<>>

\* Thread t takes the step.
Steps(t) == stack'[t] # stack[t] \/ exc'[t] # exc[t]
\* The Notify on top of t's stack has an exception of its handler to pass.
Aborting(t) == Dispatching(t, Len(stack[t])) /\ exc[t] # "none"

Quiet(e) ==
    \A t \in Threads : \A k \in 1..Len(stack[t]) :
        stack[t][k].e = e => stack[t][k].op \notin {"Subscribe", "Unsubscribe"}
\* The identities subscribed whose token has seen no Unsubscribe return.
Registered(e) == {id \in Tokens(e) : ~tokens[e][id].returned}
\* t is about to lock a mutex.
LockWait(t) ==
    /\ stack[t] # <<>>
    /\ exc[t] = "none"
    /\ Top(t).pc \in {"lock", "Remove"}

\* C9: a thread that comes to lock the registry's mutex, in particular for
\* a Subscribe, Unsubscribe or Notify made by a handler, never holds that
\* mutex already (it cannot block on itself); and whenever no Subscribe or
\* Unsubscribe call is executing, the registry of a living Impl holds
\* exactly the identities subscribed and not yet unsubscribed.
C9_ReentrantCallsNoDeadlockRegistryExact ==
    /\ \A t \in Threads : LockWait(t) => mutex[Top(t).e] # t
    /\ \A e \in Events : (Quiet(e) /\ ImplAlive(e)) => handlers[e] = Registered(e)

\* Handler 1 subscribed handler 2, unsubscribed itself and called Notify,
\* which now runs handler 2.
C9_Witness ==
    /\ Len(stack[1]) = 4
    /\ Dispatching(1, 1) /\ stack[1][1].copy = <<1>>
    /\ HasFrame(1, 2, "Handler")
    /\ Dispatching(1, 3) /\ stack[1][3].copy = <<2>>
    /\ HasFrame(1, 4, "Handler")
    /\ tokens[1][1].returned
    /\ handlers[1] = {2}

\* Thread t invokes a handler in this step.
Invokes(t) ==
    /\ Dispatching(t, Len(stack[t]))
    /\ Len(stack'[t]) = Len(stack[t]) + 1

\* C10 as stated: no handler is invoked once an Unsubscribe() call on its
\* token has returned, not even by a Notify that was already in flight.
C10_NeverInvokedAfterUnsubscribeReturned ==
    [][\A t \in Threads :
          Invokes(t) =>
              ~tokens[Top(t).e][stack'[t][Len(stack'[t])].id].returned]_vars

\* C10 amended: a Notify that takes its copy of the registry after the
\* Unsubscribe() call on a token has returned never invokes that token's
\* handler; a Notify that took its copy earlier may still invoke it, and
\* invokes no handler more than once.
C10_NotInCopyTakenAfterUnsubscribeReturned ==
    \A t \in Threads : \A k \in 1..Len(stack[t]) :
        Dispatching(t, k) =>
            /\ stack[t][k].done \cap Range(stack[t][k].copy) = {}
            /\ \A id \in Ids : Invocations(stack[t][k], id) <= 1

\* Thread 1 took its copy with handler 1 in it; since then thread 2's
\* Unsubscribe() on token 1 has returned; handler 1 is still to be invoked.
C10_Witness ==
    /\ Len(stack[1]) = 1 /\ Dispatching(1, 1)
    /\ stack[1][1].copy = <<1>> /\ stack[1][1].i = 0
    /\ stack[1][1].done = {}
    /\ tokens[1][1].returned
    /\ stack[2] = <<>>

\* The tokens of e on which IsValid() is true.
ValidNow(e) == {id \in Tokens(e) : IsValid(e, id)}
\* Nothing was subscribed to or unsubscribed from its Event since frame k
\* of t took its copy, and no such call is executing.
Unchanged(t, k) ==
    LET f == stack[t][k]
    IN /\ Quiet(f.e)
       /\ f.done = Returned(f.e)
       /\ f.valid = ValidNow(f.e)
\* The threads whose outermost call is a Notify on e that has invoked all
\* the handlers of its copy, the registry being unchanged since the copy.
Finished(e) ==
    {t \in Threads : Complete(t, 1) /\ stack[t][1].e = e /\ Unchanged(t, 1)}
RECURSIVE TotalInvocations(_)
TotalInvocations(S) ==
    IF S = {} THEN 0
    ELSE LET t == CHOOSE x \in S : TRUE
         IN stack[t][1].i + TotalInvocations(S \ {t})

\* C11: a Notify running while the registry does not change, whatever
\* other threads' Notify calls do, has copied exactly the registered
\* handlers, each once, and has invoked each exactly once when it is about
\* to return; the Notify calls about to return have made together
\* (number of handlers) x (number of calls) invocations.
C11_ConcurrentNotifyEachHandlerOncePerCall ==
    /\ \A t \in Threads : \A k \in 1..Len(stack[t]) :
          (Dispatching(t, k) /\ Unchanged(t, k)) =>
              LET f == stack[t][k]
              IN /\ Range(f.copy) = handlers[f.e]
                 /\ Len(f.copy) = Cardinality(handlers[f.e])
                 /\ Complete(t, k) =>
                       \A id \in handlers[f.e] : Invocations(f, id) = 1
    /\ \A e \in Events :
          TotalInvocations(Finished(e)) =
              Cardinality(handlers[e]) * Cardinality(Finished(e))

\* Two threads are in Notify at once, each with its own copy of the two
\* handlers (in different orders), and each has invoked both.
C11_Witness ==
    /\ Finished(1) = {1, 2}
    /\ handlers[1] = {1, 2}
    /\ stack[1][1].copy = <<1, 2>>
    /\ stack[2][1].copy = <<2, 1>>
    /\ TotalInvocations(Finished(1)) = 4

\* A Notify that runs with the registry unchanged since its copy, no
\* Unsubscribe() call having ever returned, has one handler per Subscribe
\* call that returned.
OnePerSubscribe ==
    \A t \in Threads : \A k \in 1..Len(stack[t]) :
        (Dispatching(t, k) /\ Unchanged(t, k) /\ Returned(stack[t][k].e) = {}) =>
            /\ Len(stack[t][k].copy) = currentId[stack[t][k].e]
            /\ Range(stack[t][k].copy) = Tokens(stack[t][k].e)

\* C12: whichever threads are subscribing at the same time, the step in
\* which a Subscribe call adds its handler yields one identity no earlier
\* call obtained and one more registry entry, the entries of the other
\* calls staying; and a Notify that follows the Subscribe calls has one
\* handler per call.
C12_ConcurrentSubscribeDistinctNoneLost ==
    [][/\ \A t \in Threads :
             (Running(t, "Subscribe", "add") /\ Steps(t)) =>
                 LET e == Top(t).e
                 IN /\ Cardinality(DOMAIN tokens'[e]) = Cardinality(Tokens(e)) + 1
                    /\ handlers'[e] = handlers[e] \cup (DOMAIN tokens'[e] \ Tokens(e))
                    /\ Cardinality(handlers'[e]) = Cardinality(handlers[e]) + 1
       /\ OnePerSubscribe']_vars

\* Both threads are inside Subscribe: thread 1 holds the mutex in Add,
\* thread 2 waits for it.
C12_Witness ==
    /\ HasFrame(1, 1, "Subscribe") /\ stack[1][1].pc = "add"
    /\ HasFrame(2, 1, "Subscribe") /\ stack[2][1].pc = "lock"
    /\ mutex[1] = 1
    /\ handlers[1] = {}

\* C13: whichever threads are unsubscribing at the same time, a handler
\* whose token's Unsubscribe() has returned is out of the registry, a
\* handler on whose token no Unsubscribe() was called is in it, and a
\* Notify that follows these calls has copied exactly the handlers not
\* unsubscribed.
C13_ConcurrentUnsubscribeRemovesExactlyThose ==
    /\ \A e \in Events : \A id \in Tokens(e) :
          /\ tokens[e][id].returned => id \notin handlers[e]
          /\ (ImplAlive(e) /\ ~tokens[e][id].returned /\ ~InFlight(e, id))
                => id \in handlers[e]
    /\ \A t \in Threads : \A k \in 1..Len(stack[t]) :
          (Dispatching(t, k) /\ Unchanged(t, k)) =>
              Range(stack[t][k].copy) = Tokens(stack[t][k].e) \ Returned(stack[t][k].e)

\* Threads 1 and 2 are inside Unsubscribe() on tokens 1 and 2: thread 1
\* has removed handler 1, thread 2 is about to lock for its removal.
C13_Witness ==
    /\ HasFrame(1, 1, "Unsubscribe") /\ stack[1][1].id = 1 /\ stack[1][1].pc = "clear"
    /\ HasFrame(2, 1, "Unsubscribe") /\ stack[2][1].id = 2 /\ stack[2][1].pc = "Remove"
    /\ handlers[1] = {2}

\* Thread t is inside an access to the registry of e: Add's insert,
\* Remove's erase, or the iteration with which Notify fills its copy.
InRegistry(t, e) ==
    /\ stack[t] # <<>>
    /\ Top(t).e = e
    /\ Top(t).op \in {"Subscribe", "Unsubscribe", "Notify"}
    /\ Top(t).pc \in {"add", "erase", "copy"}

\* C14: at most one thread at a time is inside an insert, an erase or a
\* copying iteration of an Event's registry, and that thread holds the
\* Impl's mutex.
C14_RegistryAccessesMutuallyExclusive ==
    \A e \in Events :
        /\ Cardinality({t \in Threads : InRegistry(t, e)}) <= 1
        /\ \A t \in Threads : InRegistry(t, e) => mutex[e] = t

\* Thread 1 is copying the registry for Notify while thread 2, inside
\* Unsubscribe, waits for the mutex to erase.
C14_Witness ==
    /\ InRegistry(1, 1) /\ Top(1).pc = "copy"
    /\ handlers[1] = {1, 2}
    /\ HasFrame(2, 1, "Unsubscribe") /\ stack[2][1].pc = "Remove"

\* C15: with Unsubscribe() and IsValid() running on one token on two
\* threads, no call raises, IsValid never comes to call a validity probe
\* that has been cleared, and Unsubscribe never comes to call a removal
\* action that has been cleared.
C15_ConcurrentUnsubscribeIsValidNeverFail ==
    \A t \in Threads :
        /\ exc[t] # "bad_function_call"
        /\ Running(t, "IsValid", "probe") => tokens[Top(t).e][Top(t).id].isValidFunc
        /\ Running(t, "Unsubscribe", "closure") =>
               tokens[Top(t).e][Top(t).id].unsubscribeFunc

\* The identities of e whose Subscription a living ScopedSubscription holds.
Held(e) == {id \in Tokens(e) : \E s \in Scopes : scoped[s] = Holding(e, id)}
\* The identities of e that were registered through SubscribeScoped.
Wrapped(e) == {id \in Tokens(e) : tokens[e][id].wrapped}
\* No Subscribe, Unsubscribe or move-assignment is executing.
Settled ==
    \A t \in Threads : \A k \in 1..Len(stack[t]) :
        stack[t][k].op \notin {"Subscribe", "Unsubscribe", "MoveAssign", "MoveConstruct"}
\* The Notify on top of t's stack has just taken its copy.
JustCopied(t) ==
    /\ Dispatching(t, Len(stack[t]))
    /\ exc[t] = "none"
    /\ Top(t).i = 0

\* C16: between calls, the handlers registered through SubscribeScoped
\* that are in the registry are exactly those whose ScopedSubscription is
\* alive; the copy a Notify takes holds exactly those, never one whose
\* Unsubscribe() (run by the destructor) had returned, and a Notify about
\* to return has invoked each of them once.
C16_ScopedInvokedExactlyWhileAlive ==
    /\ \A e \in Events :
          (Settled /\ ImplAlive(e)) => handlers[e] \cap Wrapped(e) = Held(e)
    /\ \A t \in Threads :
          JustCopied(t) => Range(Top(t).copy) \cap Wrapped(Top(t).e) = Held(Top(t).e)
    /\ \A t \in Threads : \A k \in 1..Len(stack[t]) :
          Dispatching(t, k) =>
              LET f == stack[t][k]
              IN /\ f.done \cap Range(f.copy) = {}
                 /\ Complete(t, k) =>
                       \A id \in f.valid \cap Wrapped(f.e) : Invocations(f, id) = 1

\* Two scoped subscriptions were made, the first was destroyed (no object
\* is empty: nothing was moved), and a Notify has invoked the second only.
C16_Witness ==
    /\ Complete(1, 1)
    /\ Wrapped(1) = {1, 2}
    /\ tokens[1][1].returned
    /\ Held(1) = {2}
    /\ \A s \in Scopes : scoped[s].state # "empty"
    /\ stack[1][1].done = {1}
    /\ stack[1][1].copy = <<2>>

\* The step constructs d by move from s, which holds a Subscription.
MoveConstructs(s, d) ==
    /\ s # d
    /\ scoped[s].state = "holds"
    /\ scoped[d].state = "none"
    /\ scoped'[d] = scoped[s]
\* Every Notify that has just taken its copy has in it the handlers held
\* by living ScopedSubscriptions.
HeldAreCopied == \A t \in Threads : JustCopied(t) => Held(Top(t).e) \subseteq Range(Top(t).copy)

\* C17: a move construction leaves the source empty and the registry and
\* the tokens as they were; destroying an empty ScopedSubscription changes
\* nothing but that object; and the handler held by a living
\* ScopedSubscription (the destination) is in the copy of every Notify.
C17_MoveConstructTransfersRegistration ==
    [][/\ \A s, d \in Scopes :
             MoveConstructs(s, d) =>
                 /\ scoped'[s] = EmptyScoped
                 /\ UNCHANGED <<handlers, currentId, tokens, impl, locked, mutex, exc>>
       /\ \A s \in Scopes :
             (scoped[s].state = "empty" /\ scoped'[s].state = "none") =>
                 UNCHANGED <<handlers, currentId, tokens, impl, locked, mutex, stack, exc>>
       /\ HeldAreCopied']_vars

\* Object 2 has been move-constructed from object 1, which held handler 1:
\* object 2 holds it, object 1 is empty, the handler is still registered.
C17_Witness ==
    /\ Running(1, "MoveConstruct", "ret")
    /\ Top(1).self = 2 /\ Top(1).other = 1
    /\ scoped[1] = EmptyScoped
    /\ scoped[2] = Holding(1, 1)
    /\ handlers[1] = {1}

\* Between calls, the scoped handlers registered are those held by living
\* ScopedSubscriptions, and no Notify has copied an unsubscribed handler.
HeldAreRegistered ==
    /\ \A e \in Events :
          (Settled /\ ImplAlive(e)) => handlers[e] \cap Wrapped(e) = Held(e)
    /\ \A t \in Threads : \A k \in 1..Len(stack[t]) :
          Dispatching(t, k) => stack[t][k].done \cap Range(stack[t][k].copy) = {}

\* C18: when a move assignment comes to take other's Subscription, the
\* handler the target held has been unsubscribed (its Unsubscribe() has
\* returned and it is out of the registry); the step gives the target
\* other's Subscription, leaves other empty and the registry as it is; a
\* self-assignment returns at once and changes nothing; and afterwards the
\* scoped handlers registered are those of the living ScopedSubscriptions.
C18_MoveAssignUnsubscribesThenTakes ==
    [][/\ \A t \in Threads :
             (Running(t, "MoveAssign", "move") /\ Steps(t)) =>
                 LET a == Top(t).self
                     b == Top(t).other
                 IN /\ scoped'[a] = scoped[b]
                    /\ scoped'[b] = EmptyScoped
                    /\ scoped[a].state = "holds" =>
                          /\ tokens[scoped[a].e][scoped[a].id].returned
                          /\ scoped[a].id \notin handlers[scoped[a].e]
                    /\ Len(stack'[t]) = Len(stack[t])
                    /\ UNCHANGED <<handlers, currentId, tokens, impl, locked, mutex, exc>>
       /\ \A t \in Threads :
             (Running(t, "MoveAssign", "check") /\ Top(t).self = Top(t).other /\ Steps(t)) =>
                 /\ stack'[t] = Pop(t)
                 /\ UNCHANGED <<handlers, currentId, tokens, impl, locked, mutex, exc, scoped>>
       /\ HeldAreRegistered']_vars

\* Object 1 = std::move(object 2), object 1 having held handler 1 and
\* object 2 handler 2: handler 1 is unsubscribed, object 1 holds handler 2
\* (still registered), object 2 is empty.
C18_Witness ==
    /\ Running(1, "MoveAssign", "ret")
    /\ Top(1).self = 1 /\ Top(1).other = 2 /\ Top(1).id = 1
    /\ scoped[1] = Holding(1, 2)
    /\ scoped[2] = EmptyScoped
    /\ tokens[1][1].returned
    /\ handlers[1] = {2}

\* Thread t is inside Subscribe on e and takes a step.
SubscribeSteps(t, e) ==
    /\ HasFrame(t, Len(stack[t]), "Subscribe")
    /\ Top(t).e = e
    /\ Steps(t)

\* C19: the counter of an Event never decreases; after every step the
\* registry's keys lie in 1..counter and the identities handed out are
\* exactly 1..counter; the step in which Subscribe adds its handler
\* raises the counter by one and adds that one key, which no token ever
\* had (even one whose handler was unsubscribed), leaving the other
\* registry entries, the other tokens and the ownership of the Impl as
\* they were; Subscribe's other step changes none of these.
C19_IdentitiesIncreasingNeverReused ==
    [][\A e \in Events :
          /\ currentId'[e] >= currentId[e]
          /\ handlers'[e] \subseteq 1..currentId'[e]
          /\ DOMAIN tokens'[e] = 1..currentId'[e]
          /\ \A t \in Threads :
                SubscribeSteps(t, e) =>
                    /\ UNCHANGED <<impl, locked, exc>>
                    /\ \A id \in Tokens(e) : tokens'[e][id] = tokens[e][id]
                    /\ IF Top(t).pc = "add"
                       THEN /\ currentId'[e] = currentId[e] + 1
                            /\ currentId'[e] \notin Tokens(e)
                            /\ currentId'[e] \notin handlers[e]
                            /\ handlers'[e] = handlers[e] \cup {currentId'[e]}
                       ELSE UNCHANGED <<handlers, currentId, tokens>>]_vars

\* Handler 1 was subscribed and unsubscribed (the registry is empty), and
\* a Subscribe holding the mutex is about to allocate: it takes 2.
C19_Witness ==
    /\ Running(1, "Subscribe", "add")
    /\ currentId[1] = 1
    /\ tokens[1][1].returned
    /\ handlers[1] = {}

\* The innermost call of t is op on a Subscription built by default.
OnDefault(t, op) ==
    /\ HasFrame(t, Len(stack[t]), op)
    /\ Top(t).e = NoEvent

\* C20: on a Subscription built by Subscription(), IsValid() is false at
\* all times: a call of it goes to "false" without calling a probe; an
\* Unsubscribe() call on it returns at once, first call or not; and no
\* step of either call changes an Event's registry, counter, tokens,
\* Impl ownership or mutex, or raises anything.
C20_DefaultSubscriptionInvalidAndInert ==
    [][/\ \A id \in DOMAIN tokens'[NoEvent] :
             /\ ~IsValid(NoEvent, id)'
             /\ ~tokens'[NoEvent][id].unsubscribeFunc
       /\ \A t \in Threads :
             ((OnDefault(t, "Unsubscribe") \/ OnDefault(t, "IsValid")) /\ Steps(t)) =>
                 /\ UNCHANGED <<handlers, currentId, impl, locked, mutex, scoped>>
                 /\ \A e \in Events : tokens'[e] = tokens[e]
                 /\ exc'[t] = "none"
                 /\ IF Top(t).op = "Unsubscribe"
                    THEN stack'[t] = Pop(t)
                    ELSE \/ stack'[t] = Pop(t) /\ Top(t).pc = "false"
                         \/ stack'[t] = Append(Pop(t), [Top(t) EXCEPT !.pc = "false"])]_vars

\* Two handlers are registered on the Event; an Unsubscribe() call on the
\* default Subscription has returned already and a further one has begun.
C20_Witness ==
    /\ OnDefault(1, "Unsubscribe")
    /\ Top(1).pc = "check"
    /\ tokens[NoEvent][1].returned
    /\ handlers[1] = {1, 2}

\* The places of log where a handler of (e, id) recorded what it received.
Received(e, id) ==
    {j \in 1..Len(log) : log[j].kind = "recv" /\ log[j].e = e /\ log[j].id = id}
\* The places of log where the client called Notify on e with the handler
\* of id registered.
NotifiedTo(e, id) ==
    {j \in 1..Len(log) : log[j].kind = "Notify" /\ log[j].e = e /\ id \in Range(log[j].seen)}
\* The Notify call a record of a handler belongs to: the last one before it.
CallOf(j) == CHOOSE c \in 1..j : log[c].kind = "Notify" /\ \A d \in (c + 1)..j : log[d].kind # "Notify"
RECURSIVE SumArgs(_)
SumArgs(J) ==
    IF J = {} THEN 0
    ELSE LET j == CHOOSE x \in J : TRUE
         IN log[j].arg[1] + SumArgs(J \ {j})
\* count, the counter into which the handler of (e, id) accumulates.
Counter(e, id) == SumArgs(Received(e, id))

\* C21: a handler being called by Notify has the arguments of that Notify
\* call, and every value a handler recorded is the value of the call that
\* invoked it (so all handlers of one call see the same value); hence,
\* between calls, the counter of a handler is the sum of the values of the
\* Notify calls made while it was registered: k calls of Notify(v) leave
\* it at k * v.
C21_HandlersReceiveTheArgumentsOfTheCall ==
    /\ \A t \in Threads : \A k \in 1..Len(stack[t]) :
          (HasFrame(t, k, "Handler") /\ HasFrame(t, k - 1, "Notify")) =>
              stack[t][k].arg = stack[t][k - 1].arg
    /\ \A j \in 1..Len(log) :
          log[j].kind = "recv" => log[j].arg = log[CallOf(j)].arg
    /\ stack[1] = << >> =>
          \A e \in Events : \A id \in Ids :
              /\ Counter(e, id) = SumArgs(NotifiedTo(e, id))
              /\ \A v \in Values :
                    (\A j \in NotifiedTo(e, id) : log[j].arg = <<v>>) =>
                        Counter(e, id) = Cardinality(NotifiedTo(e, id)) * v

\* One handler was subscribed, then Notify(2) was called three times: the
\* handler's counter is 6.
C21_Witness ==
    /\ stack[1] = << >>
    /\ currentId[1] = 1
    /\ Cardinality(NotifiedTo(1, 1)) = 3
    /\ \A j \in 1..Len(log) : log[j].kind = "Notify" => log[j].arg = <<2>> /\ log[j].seen = <<1>>
    /\ Counter(1, 1) = 6

\* Thread t is inside the removal action of a token of e, between
\* weakImpl.lock() and the release of the shared_ptr it obtained.
InClosure(t, e) ==
    \E k \in 1..Len(stack[t]) :
        /\ stack[t][k].op = "Unsubscribe"
        /\ stack[t][k].e = e
        /\ stack[t][k].pc \in {"Remove", "erase", "reset"}

\* C22 as stated: once the Event is destroyed, whatever Unsubscribe() and
\* IsValid() calls other threads are in, the registry no longer exists and
\* IsValid() is false on every token.
C22_DestroyedEventRegistryGone ==
    \A e \in Events : ~impl[e] =>
        /\ ~ImplAlive(e)
        /\ handlers[e] = {}
        /\ \A id \in Tokens(e) : ~IsValid(e, id)

\* C22 amended: a thread owns the registry only while it is inside the
\* removal action of an Unsubscribe() call (IsValid() never owns it); once
\* the Event is destroyed and no thread is inside such an action, the
\* registry is gone, IsValid() is false on every token, and an IsValid()
\* call that comes to its probe answers false.
C22_RegistryKeptAliveOnlyDuringRemoval ==
    [][\A e \in Events :
          /\ \A t \in locked'[e] : InClosure(t, e)'
          /\ (~impl'[e] /\ \A t \in Threads : ~InClosure(t, e)') =>
                /\ ~ImplAlive(e)'
                /\ handlers'[e] = {}
                /\ \A id \in DOMAIN tokens'[e] : ~IsValid(e, id)'
          /\ \A t \in Threads :
                (/\ Running(t, "IsValid", "probe")
                 /\ Top(t).e = e
                 /\ Steps(t)
                 /\ ~impl[e]
                 /\ \A u \in Threads : ~InClosure(u, e))
                => ~(stack'[t] # << >> /\ stack'[t][Len(stack'[t])].pc = "true")]_vars

\* The Event was destroyed while thread 1 was unsubscribing token 1; the
\* removal action has released the registry; thread 2's IsValid() on
\* token 2, which still has its probe, has found the registry gone.
C22_Witness ==
    /\ ~impl[1]
    /\ Running(1, "Unsubscribe", "clear")
    /\ Top(1).id = 1
    /\ ~tokens[1][1].weakImpl
    /\ Running(2, "IsValid", "false")
    /\ Top(2).id = 2
    /\ tokens[1][2].isValidFunc

\* The innermost call of t is SetPropertyValueAndNotify at pc.
Setting(t, pc) == Running(t, "SetPropertyValueAndNotify", pc)
\* The entry the step appends to log.
Logged == log'[Len(log')]
\* The step appends exactly one entry to log.
LogsOne == Len(log') = Len(log) + 1 /\ SubSeq(log', 1, Len(log)) = log
\* The places of log with an entry of this kind about event e.
Places(kind, e) == {j \in 1..Len(log) : log[j].kind = kind /\ log[j].e = e}
\* The value the field had when the call of frame f was made.
OldValue(f) == log[f.i].seen[1]
\* No assignment to the property of frame f was made since f's own call.
NoSetSince(f) ==
    \A j \in (f.i + 1)..Len(log) : ~(log[j].kind = "Set" /\ log[j].id = f.id)
\* t's innermost call is a handler of an ObservableObject event that is
\* about to look at the object.
Observing(t) ==
    /\ Running(t, "Handler", "run")
    /\ Top(t).e \in ObjectEvents
    /\ HasFrame(t, Len(stack[t]) - 2, "SetPropertyValueAndNotify")
\* The SetPropertyValueAndNotify call on whose behalf that handler runs.
Setter(t) == stack[t][Len(stack[t]) - 2]
\* What the handler sees is the old value (PropertyChanging) or the new
\* value (PropertyChanged) of the call that raised the notification.
SeesOldOrNew(t) ==
    /\ Top(t).arg = <<Setter(t).id>>
    /\ IF Top(t).e = PropertyChanging
       THEN Logged.seen = <<OldValue(Setter(t))>> /\ Logged.seen # Setter(t).arg
       ELSE Logged.seen = Setter(t).arg
\* t's innermost call is a SetPropertyValueAndNotify that found the value
\* different, and this step ends it.
LeavesSet(t) ==
    /\ stack[t] # << >>
    /\ Top(t).op = "SetPropertyValueAndNotify"
    /\ Top(t).pc # "compare"
    /\ Len(stack'[t]) < Len(stack[t])

ReturnedTrue == {j \in 1..Len(log) : log[j].kind = "ret" /\ log[j].arg = <<1>>}
\* The calls of SetPropertyValueAndNotify an exception has left so far.
Unwound == {j \in 1..Len(log) : log[j].kind = "unwound"}
\* No call of SetPropertyValueAndNotify is in progress.
NoSetInProgress ==
    \A t \in Threads : \A k \in 1..Len(stack[t]) :
        ~HasFrame(t, k, "SetPropertyValueAndNotify")
\* A call with the value the field already has raises nothing, leaves
\* the field alone and returns false.
EqualValueIsSilent(t) ==
    (Setting(t, "compare") /\ Steps(t) /\ field[Top(t).id] = Top(t).arg[1]) =>
        /\ stack'[t] = Pop(t)
        /\ LogsOne
        /\ Logged = Entry("ret", 0, Top(t).id, <<0>>, <<field[Top(t).id]>>)
        /\ UNCHANGED <<field, handlers, exc>>

\* C24 as stated: a call with an equal value raises neither event, leaves
\* the field unchanged and returns false; so, whenever no call is in
\* progress, PropertyChanged and PropertyChanging have each been raised
\* as many times as calls have returned true.
C24_EqualValueSilentCountsEqualTrueReturns ==
    [][/\ \A t \in Threads : EqualValueIsSilent(t)
       /\ NoSetInProgress' =>
             /\ Cardinality(Places("raise", PropertyChanged)') = Cardinality(ReturnedTrue')
             /\ Cardinality(Places("raise", PropertyChanging)') = Cardinality(ReturnedTrue')]_vars

\* C24 amended: a call with an equal value raises neither event, leaves
\* the field unchanged and returns false.  Whenever no call is in
\* progress, the calls that returned true are at most the PropertyChanged
\* notifications, which are at most the PropertyChanging notifications;
\* the three numbers are equal when no handler's exception has left a
\* call, and each such exception accounts for exactly one missing true.
C24_EqualValueSilentCountsEqualUnlessThrown ==
    [][/\ \A t \in Threads : EqualValueIsSilent(t)
       /\ NoSetInProgress' =>
             /\ Cardinality(ReturnedTrue') <= Cardinality(Places("raise", PropertyChanged)')
             /\ Cardinality(Places("raise", PropertyChanged)')
                   <= Cardinality(Places("raise", PropertyChanging)')
             /\ Cardinality(Places("raise", PropertyChanging)')
                   = Cardinality(ReturnedTrue') + Cardinality(Unwound')
             /\ Unwound' = {} =>
                   /\ Cardinality(Places("raise", PropertyChanged)') = Cardinality(ReturnedTrue')
                   /\ Cardinality(Places("raise", PropertyChanging)') = Cardinality(ReturnedTrue')]_vars

\* Property 1 was set to 2 (true, both events raised once, one handler
\* each) and then set to 2 again: false, nothing more raised.
C24_Witness ==
    /\ stack[1] = << >>
    /\ Len(log) = 8
    /\ log[6] = Entry("ret", 0, 1, <<1>>, <<2>>)
    /\ log[7] = Entry("Set", 0, 1, <<2>>, <<2>>)
    /\ log[8] = Entry("ret", 0, 1, <<0>>, <<2>>)
    /\ field[1] = 2
    /\ Cardinality(Places("raise", PropertyChanged)) = 1
    /\ Cardinality(Places("raise", PropertyChanging)) = 1
    /\ Cardinality(ReturnedTrue) = 1

\* The frames of modifiers that are at pc, on any thread.
ModifiersAt(pc) ==
    {<<t, k>> \in Threads \X (1..MaxNest) :
        k <= Len(stack[t]) /\ stack[t][k].op \in Modifiers /\ stack[t][k].pc = pc}
\* The places of log with an entry of this kind.
Kind(kind) == {j \in 1..Len(log) : log[j].kind = kind}
\* Every modifier call has raised CollectionChanging once unless it is
\* about to, and every change of _items has been followed by one
\* CollectionChanged unless it is about to be.
OneBeforeOneAfter ==
    /\ Cardinality(Places("raise", CollectionChanging))
          = Cardinality(Kind("Mutate")) - Cardinality(ModifiersAt("changing"))
    /\ Cardinality(Places("raise", CollectionChanged))
          = Cardinality(Kind("mutated")) - Cardinality(ModifiersAt("changed"))
\* The step raises CollectionChanging with the modifier's locals, before
\* _items is touched.
RaisesChanging(t) ==
    /\ LogsOne
    /\ Logged = Entry("raise", CollectionChanging, ChangeOf(Top(t).op), Top(t).arg,
                      <<Len(items)>>)
    /\ Len(log) = Top(t).i
    /\ UNCHANGED items
    /\ stack'[t][Len(stack'[t])].op = "Notify"
    /\ stack'[t][Len(stack'[t])].e = CollectionChanging
    /\ stack'[t][Len(stack'[t])].arg = Top(t).arg
    /\ stack'[t][Len(stack'[t]) - 1] = [Top(t) EXCEPT !.pc = "mutate"]
\* The step raises CollectionChanged with the same locals, after _items
\* was changed.
RaisesChanged(t) ==
    /\ LogsOne
    /\ Logged = Entry("raise", CollectionChanged, ChangeOf(Top(t).op), Top(t).arg,
                      <<Len(items)>>)
    /\ log[Top(t).i + 1].e = CollectionChanging
    /\ log[Top(t).i + 1].arg = Top(t).arg
    /\ \E j \in (Top(t).i + 2)..Len(log) :
          log[j].kind = "mutated" /\ log[j].arg = Top(t).arg
    /\ UNCHANGED items
    /\ stack'[t][Len(stack'[t])].op = "Notify"
    /\ stack'[t][Len(stack'[t])].e = CollectionChanged
    /\ stack'[t][Len(stack'[t])].arg = Top(t).arg
\* The index announced is the position the modifier was given, or 0 for
\* Clear.
PositionAnnounced(f) ==
    CASE f.op \in {"insert", "erase", "eraseRange"} -> f.arg[2] = f.other
      [] f.op = "clear" -> f.arg[2] = 0
      [] f.op = "push_back" -> TRUE
\* The counts announced are the sizes of _items before and after this
\* step, and the index announced for Add is the size before it.
SizesAnnounced(t) ==
    /\ Top(t).arg[3] = Len(items)
    /\ Top(t).arg[4] = Len(items')
    /\ Top(t).op = "push_back" => Top(t).arg[2] = Len(items)

C26_CountIsSizeWritesIgnored ==
    [][\A t \in Threads :
          /\ (Running(t, "Get", "get") /\ Steps(t)) =>
                /\ stack'[t][Len(stack'[t])].arg = <<Len(items)>>
                /\ UNCHANGED items
          /\ (Running(t, "Set", "set") /\ Steps(t)) =>
                /\ items' = items
                /\ Count_get(items') = Count_get(items)]_vars

\* After push_back(1), insert(begin(), 2) and erase(begin() + 1), the
\* client has written 0 to Count: the collection still holds its element.
C26_Witness ==
    /\ Running(1, "Set", "ret")
    /\ Top(1).arg = <<0>>
    /\ items = <<2>>
    /\ Count_get(items) = 1
    /\ \E a, b, c \in Kind("mutated") :
          /\ a < b /\ b < c
          /\ log[a].id = Add /\ log[b].id = Insert /\ log[c].id = Remove

\* C27: a thread holds the mutex of a registry only while its innermost
\* call is inside the insert, the erase or the copying loop; so Notify
\* holds it only while copying, and a thread whose innermost call is a
\* handler, or a Notify that has taken its copy, holds no registry's mutex.
C27_LockHeldOnlyWhileCopying ==
    \A t \in Threads : \A e \in AllEvents :
        /\ mutex[e] = t => InRegistry(t, e)
        /\ \A k \in 1..Len(stack[t]) :
              (HasFrame(t, k, "Notify") /\ stack[t][k].e = e /\ mutex[e] = t) =>
                  (stack[t][k].pc = "copy" \/ k < Len(stack[t]))
        /\ (stack[t] # << >> /\ Top(t).op = "Handler") => mutex[e] # t
        /\ Dispatching(t, Len(stack[t])) => mutex[e] # t

\* Thread 1 is executing a handler of Event 1 for Notify while thread 2,
\* inside Subscribe on the same Event, holds the mutex.
C27_Witness ==
    /\ Len(stack[1]) = 2
    /\ Dispatching(1, 1) /\ stack[1][1].e = 1
    /\ Top(1).op = "Handler"
    /\ mutex[1] = 2
    /\ InRegistry(2, 1) /\ Top(2).op = "Subscribe"

\* The Notify frames that have taken their copy of the registry of e.
Dispatches(e) ==
    {<<t, k>> \in Threads \X (1..MaxDepth) : Dispatching(t, k) /\ stack[t][k].e = e}

\* C28: once a Notify has copied the registry, nothing changes its copy:
\* it invokes the handlers of the copy one after the other, in the copy's
\* order, whether or not they are still registered, and no others.  An
\* identity added to the registry while Notify calls are dispatching is
\* in none of their copies, and every copy taken afterwards holds exactly
\* the identities registered at that time.
C28_InFlightDispatchUsesItsSnapshot ==
    [][/\ \A e \in Events : \A d \in Dispatches(e) :
             d[2] <= Len(stack'[d[1]]) =>
                /\ stack'[d[1]][d[2]].op = "Notify"
                /\ stack'[d[1]][d[2]].copy = stack[d[1]][d[2]].copy
                /\ stack'[d[1]][d[2]].i \in {stack[d[1]][d[2]].i, stack[d[1]][d[2]].i + 1}
       /\ \A t \in Threads :
             /\ (Running(t, "Notify", "call") /\ Steps(t)) =>
                   IF Top(t).i < Len(Top(t).copy)
                   THEN /\ Len(stack'[t]) = Len(stack[t]) + 1
                        /\ stack'[t][Len(stack'[t])].op = "Handler"
                        /\ stack'[t][Len(stack'[t])].id = Top(t).copy[Top(t).i + 1]
                        /\ stack'[t][Len(stack[t])].i = Top(t).i + 1
                   ELSE stack'[t] = Pop(t)
             /\ (Running(t, "Notify", "copy") /\ Steps(t)) =>
                   /\ Range(stack'[t][Len(stack[t])].copy) = handlers[Top(t).e]
                   /\ Len(stack'[t][Len(stack[t])].copy) = Cardinality(handlers[Top(t).e])
             /\ (Running(t, "Subscribe", "add") /\ Steps(t)) =>
                   /\ handlers'[Top(t).e] # handlers[Top(t).e]
                   /\ \A d \in Dispatches(Top(t).e) :
                         (handlers'[Top(t).e] \ handlers[Top(t).e])
                             \cap Range(stack[d[1]][d[2]].copy) = {}]_vars

\* Thread 1's Notify copied handlers 1 and 2; handler 2 was unsubscribed
\* and the Unsubscribe call returned before its turn came, handler 1 has
\* returned, and handler 2 has just been invoked all the same.
C28_Witness ==
    /\ Len(stack[1]) = 2
    /\ Dispatching(1, 1)
    /\ stack[1][1].copy = <<1, 2>> /\ stack[1][1].i = 2
    /\ Top(1).op = "Handler" /\ Top(1).id = 2 /\ Top(1).pc = "run"
    /\ handlers[1] = {1}
    /\ tokens[1][2].returned
    /\ stack[2] = << >>

\* The handler of (e, id) has been removed from a registry that still
\* exists, and its token still holds its removal action and its validity
\* probe.
RemovedNotInvalidated(e, id) ==
    /\ ImplAlive(e)
    /\ id \in DOMAIN tokens[e]
    /\ id \notin handlers[e]
    /\ tokens[e][id].unsubscribeFunc
    /\ tokens[e][id].isValidFunc
\* The step of t is the one in which IsValid() or Unsubscribe() looks at
\* the token's members.
Observes(t) ==
    /\ \E op \in {"IsValid", "Unsubscribe"} : Running(t, op, "check")
    /\ Steps(t)

\* C29: no call of IsValid() or Unsubscribe(), on any thread, looks at a
\* token whose handler has been removed while the token still holds its
\* removal action and its validity probe.
C29_InvalidationAtomicWithRemoval ==
    [][\A t \in Threads :
          Observes(t) => ~RemovedNotInvalidated(Top(t).e, Top(t).id)]_vars

ThrownOutOfSet(t, pc) ==
    /\ stack[t] # << >>
    /\ Top(t).op = "SetPropertyValueAndNotify"
    /\ Top(t).pc = pc
    /\ exc[t] = "handler"
    /\ Steps(t)
\* The exception goes on to the caller, and the call touches nothing more.
PropagatesToCaller(t) ==
    /\ stack'[t] = Pop(t)
    /\ exc'[t] = exc[t]
    /\ UNCHANGED field
    /\ LogsOne
    /\ Logged.kind = "unwound"
\* PropertyChanged was raised for the property of frame f since f's call.
ChangedRaisedSince(f) ==
    \E j \in (f.i + 1)..Len(log) :
        log[j].kind = "raise" /\ log[j].e = PropertyChanged /\ log[j].id = f.id

\* C37 as stated: when a PropertyChanging handler throws, the exception
\* reaches the caller, the field has its old value and PropertyChanged
\* has not been raised; when a PropertyChanged handler throws, the field
\* has the new value.
C37_ThrowLeavesOldValueOrNewValue ==
    [][\A t \in Threads :
          /\ ThrownOutOfSet(t, "assign") =>
                /\ PropagatesToCaller(t)
                /\ field[Top(t).id] = OldValue(Top(t))
                /\ ~ChangedRaisedSince(Top(t))
          /\ ThrownOutOfSet(t, "ret") =>
                /\ PropagatesToCaller(t)
                /\ field[Top(t).id] = Top(t).arg[1]]_vars

\* C37 amended: when a PropertyChanging handler throws, the exception
\* reaches the caller and the call has neither assigned the field nor
\* raised PropertyChanged; when a PropertyChanged handler throws, the
\* exception reaches the caller and the call has assigned the field and
\* raised PropertyChanged.  So the field has its old value in the first
\* case and the new one in the second, unless a handler has set the same
\* property itself during the call.
C37_ThrowLeavesCallWhereItWas ==
    [][\A t \in Threads :
          /\ ThrownOutOfSet(t, "assign") =>
                /\ PropagatesToCaller(t)
                /\ log[Top(t).i + 1].kind = "raise"
                /\ log[Top(t).i + 1].e = PropertyChanging
                /\ NoSetSince(Top(t)) =>
                      /\ field[Top(t).id] = OldValue(Top(t))
                      /\ field[Top(t).id] # Top(t).arg[1]
                      /\ ~ChangedRaisedSince(Top(t))
          /\ ThrownOutOfSet(t, "ret") =>
                /\ PropagatesToCaller(t)
                /\ ChangedRaisedSince(Top(t))
                /\ NoSetSince(Top(t)) => field[Top(t).id] = Top(t).arg[1]
          /\ \A pc \in {"compare", "changing", "changed"} : ~ThrownOutOfSet(t, pc)]_vars

\* Property 1 was 0 and was being set to 2; the PropertyChanging handler
\* threw: the exception is with the caller, the field is still 0 and
\* PropertyChanged was never raised.
C37_Witness ==
    /\ stack[1] = << >>
    /\ exc[1] = "handler"
    /\ field[1] = 0
    /\ Len(log) = 4
    /\ log[1] = Entry("Set", 0, 1, <<2>>, <<0>>)
    /\ log[2] = Entry("raise", PropertyChanging, 1, <<1>>, <<0>>)
    /\ log[3] = Entry("recv", PropertyChanging, 1, <<1>>, <<0>>)
    /\ log[4] = Entry("unwound", 0, 1, << >>, <<0>>)
    /\ Places("raise", PropertyChanged) = {}

\* The notifications of kind change raised so far.
RaisedOfKind(change) == {j \in Kind("raise") : log[j].id = change}
\* The step is a call of a modifier that finds nothing to do.
NothingToDo == LogsOne /\ Logged.kind = "noop"

\* C38: clear() of an empty collection and erase(first, last) of an empty
\* range raise nothing and leave the collection and everything else as
\* they were, so every notification raised announces two different
\* sizes; and the modifiers notify on CollectionChanging and
\* CollectionChanged only, never on PropertyChanging or PropertyChanged.
C38_NoChangeNoEvents ==
    [][/\ NothingToDo =>
             /\ UNCHANGED <<items, stack, exc, handlers, mutex>>
             /\ Logged.id = Clear => items = << >>
       /\ \A j \in 1..Len(log') :
             log'[j].kind = "raise" =>
                /\ log'[j].e \in CollectionEvents
                /\ log'[j].arg[3] # log'[j].arg[4]
       /\ \A t \in Threads : \A k \in 1..Len(stack'[t]) :
             stack'[t][k].op \in {"Notify", "Handler"} =>
                stack'[t][k].e \in CollectionEvents]_vars

\* An element was pushed, the collection was cleared (two notifications
\* of kind Clear) and clear() was called again: nothing more was raised.
C38_Witness ==
    /\ stack[1] = << >>
    /\ items = << >>
    /\ Len(log) >= 1
    /\ log[Len(log)] = Entry("noop", 0, Clear, << >>, <<0>>)
    /\ Cardinality(RaisedOfKind(Clear)) = 2
    /\ Cardinality(Kind("raise")) = 4

\* Thread t is in a modifier of the collection out of whose notification
\* a handler's exception has come, and takes its next step.
ThrownOutOfModifier(t) ==
    /\ stack[t] # << >>
    /\ Top(t).op \in Modifiers
    /\ exc[t] = "handler"
    /\ Steps(t)

StillDispatching(t, k) ==
    /\ Dispatching(t, k)
    /\ k \in 1..Len(stack'[t])
    /\ stack'[t][k].op = "Notify"
\* The step is the invocation of a handler by the Notify of frame k of t.
InvokedBy(t, k) ==
    /\ Len(stack[t]) = k
    /\ Len(stack'[t]) = k + 1
    /\ stack'[t][k + 1].op = "Handler"

\* C31: the copy a Notify takes holds each handler of the registry once,
\* and stays what it is while handlers subscribe during the dispatch; the
\* loop position advances by one with each invocation, the handler invoked
\* is the next of the copy, and the position never passes the length of
\* the copy. With handlers that call no Notify, every Notify that has
\* taken its copy comes to the end of the copy, every handler of it
\* invoked once and returned, unless a handler fails: it ends after at
\* most as many invocations as the registry held when the copy was taken.
C31_DispatchBoundedBySnapshot ==
    /\ [][\A t \in Threads : \A k \in 1..Len(stack[t]) :
             /\ (HasFrame(t, k, "Notify") /\ stack[t][k].pc = "copy"
                    /\ k \in 1..Len(stack'[t]) /\ stack'[t][k].pc = "call") =>
                   /\ Len(stack'[t][k].copy) = Cardinality(handlers[stack[t][k].e])
                   /\ Range(stack'[t][k].copy) = handlers[stack[t][k].e]
                   /\ stack'[t][k].i = 0
             /\ StillDispatching(t, k) =>
                   /\ stack'[t][k].copy = stack[t][k].copy
                   /\ stack'[t][k].i <= Len(stack[t][k].copy)
                   /\ IF InvokedBy(t, k)
                      THEN /\ stack'[t][k].i = stack[t][k].i + 1
                           /\ stack'[t][k + 1].id = stack[t][k].copy[stack[t][k].i + 1]
                           /\ stack'[t][k + 1].e = stack[t][k].e
                      ELSE stack'[t][k].i = stack[t][k].i]_vars
    /\ \A t \in Threads :
          Dispatching(t, 1) ~> (Complete(t, 1) \/ exc[t] # "none")

\* The one handler of thread 1's Notify has been invoked and has
\* subscribed a second handler, which is in the registry and not in the
\* copy; thread 2 is idle.
C31_Witness ==
    /\ Len(stack[1]) = 2
    /\ Dispatching(1, 1)
    /\ stack[1][1].copy = <<1>>
    /\ stack[1][1].i = 1
    /\ Top(1).op = "Handler" /\ Top(1).id = 1
    /\ handlers[1] = {1, 2}
    /\ stack[2] = << >>

\* What there is of Event e: its Impl and who owns it, its registry, its
\* counter, its mutex, the tokens it has handed out, and which of them
\* are valid.
StateOf(e) ==
    <<impl[e], locked[e], handlers[e], currentId[e], mutex[e], tokens[e],
      {id \in DOMAIN tokens[e] : IsValid(e, id)}>>
\* The step is one of a member function of Event e or of one of its
\* tokens, or the destruction of e.
StepOf(e) ==
    \/ \E t \in Threads :
          /\ stack[t] # << >>
          /\ Top(t).e = e
          /\ Top(t).op \in {"Subscribe", "Unsubscribe", "Notify"}
    \/ impl[e] /\ ~impl'[e] /\ stack' = stack

\* C32: a step changes the Impl, the registry, the counter, the mutex,
\* the tokens and the validity of the tokens of an Event only if it is a
\* step of a member function of that Event or of one of its tokens, or
\* its destruction, and then of no other Event; a Notify takes its copy
\* from the registry of its own Event and the handlers it invokes are
\* handlers of that Event.
C32_EventsIndependent ==
    [][/\ \A e \in ChainEvents :
             StateOf(e)' # StateOf(e) =>
                /\ StepOf(e)
                /\ \A o \in ChainEvents \ {e} : StateOf(o)' = StateOf(o)
       /\ \A t \in Threads :
             /\ (Running(t, "Notify", "copy") /\ Steps(t)) =>
                   Range(Top(t).copy') = handlers[Top(t).e]
             /\ Invokes(t) =>
                   /\ stack'[t][Len(stack'[t])].e = Top(t).e
                   /\ stack'[t][Len(stack'[t])].id \in Range(Top(t).copy)
                   /\ stack'[t][Len(stack'[t])].id \in DOMAIN tokens[Top(t).e]]_vars

\* event1 has been destroyed with its handler; the handler of event2 is
\* registered, its token valid, and a Notify on event2 is invoking it.
C32_Witness ==
    /\ ~impl[event1]
    /\ tokens[event1] # << >>
    /\ handlers[event1] = {}
    /\ ~IsValid(event1, 1)
    /\ handlers[event2] = {1}
    /\ IsValid(event2, 1)
    /\ Len(stack[1]) = 2
    /\ Dispatching(1, 1) /\ stack[1][1].e = event2
    /\ Top(1).op = "Handler" /\ Top(1).e = event2 /\ Top(1).id = 1

\* The step is the normal return of the Notify of frame k of t, its
\* innermost call.
ReturnsNormally(t, k) ==
    /\ Complete(t, k)
    /\ stack'[t] = Pop(t)
\* Event o is e or comes after e in the chain.
FromOn(e) == {o \in ChainEvents : o >= e}
\* The registries the notifications of event1 go through up to Event e.
Fanout(e) ==
    IF e = event1 THEN Cardinality(handlers[event1])
    ELSE IF e = event2 THEN Cardinality(handlers[event1]) * Cardinality(handlers[event2])
    ELSE Cardinality(handlers[event1]) * Cardinality(handlers[event2])
            * Cardinality(handlers[event3])
\* What the handlers of e are given when event1 is notified of v.
Forwarded(e, v) == IF e = event1 THEN v ELSE IF e = event2 THEN 2 * v ELSE 4 * v

\* C33: when a Notify returns normally, every handler that has begun, of
\* its own Event and of the Events notified from there on, has come to its
\* end; and when the client's event1.Notify(v) returns normally, every
\* handler of its copy has run once with v, every handler of event2 once
\* with 2v for each handler of event1, every handler of event3 once with
\* 4v for each of those, all of them on the calling thread and to their
\* end.
C33_NestedDeliveryCompleteAtReturn ==
    [][\A t \in Threads : \A k \in 1..Len(stack[t]) :
          ReturnsNormally(t, k) =>
             /\ \A o \in FromOn(stack[t][k].e) :
                   Cardinality(Places("recv", o)) = Cardinality(Places("done", o))
             /\ k = 1 =>
                   /\ {log[j].id : j \in Places("recv", event1)} = Range(stack[t][k].copy)
                   /\ \A o \in ChainEvents :
                         /\ Cardinality(Places("recv", o)) = Fanout(o)
                         /\ \A id \in handlers[o] :
                               Cardinality({j \in Places("recv", o) : log[j].id = id}) * Cardinality(handlers[o])
                                  = Fanout(o)
                         /\ \A j \in Places("recv", o) :
                               /\ log[j].arg = <<Forwarded(o, stack[t][k].arg[1])>>
                               /\ log[j].seen = <<t>>]_vars

\* event1.Notify(1) has returned with one handler on each Event: the
\* handlers have received 1, 2 and 4 and have returned innermost first.
C33_Witness ==
    /\ stack[1] = << >>
    /\ exc[1] = "none"
    /\ Len(log) = 7
    /\ log[1].kind = "Notify" /\ log[1].arg = <<1>>
    /\ log[2] = Entry("recv", event1, 1, <<1>>, <<1>>)
    /\ log[3] = Entry("recv", event2, 1, <<2>>, <<1>>)
    /\ log[4] = Entry("recv", event3, 1, <<4>>, <<1>>)
    /\ log[5] = Entry("done", event3, 1, <<4>>, <<1>>)
    /\ log[6] = Entry("done", event2, 1, <<2>>, <<1>>)
    /\ log[7] = Entry("done", event1, 1, <<1>>, <<1>>)

\* The token objects there are for the handler of identity id of e.
TokensOf(e, id) == {k \in DOMAIN tokens[e] : tokens[e][k].id = id}
\* The registered handlers of e of which no token is left.
Orphaned(e) == {id \in handlers[e] : TokensOf(e, id) = {}}
\* The step is the end of a token of e.
TokenEnds(e) == DOMAIN tokens'[e] # DOMAIN tokens[e] /\ DOMAIN tokens'[e] \subseteq DOMAIN tokens[e]

\* C35: the end of a Subscription token leaves the registry, the Impl and
\* the other tokens as they are; a registered handler of which no token
\* is left stays registered as long as the Impl exists, is in the copy of
\* every Notify that takes its copy, and a Notify that returns normally
\* has invoked each handler of its copy once.
C35_TokenEndKeepsHandler ==
    [][/\ \A e \in Events :
             /\ TokenEnds(e) =>
                   /\ UNCHANGED <<handlers, impl, locked, mutex, currentId>>
                   /\ \A k \in DOMAIN tokens'[e] : tokens'[e][k] = tokens[e][k]
             /\ \A id \in Orphaned(e) : ImplAlive(e)' => id \in Orphaned(e)'
       /\ \A t \in Threads :
             /\ (Running(t, "Notify", "copy") /\ Steps(t)) =>
                   Orphaned(Top(t).e) \subseteq Range(Top(t).copy')
             /\ ReturnsNormally(t, Len(stack[t])) =>
                   \A id \in Range(Top(t).copy) : Invocations(Top(t), id) = 1]_vars

\* The only token of handler 1 has gone out of scope without an
\* Unsubscribe call; a Notify made afterwards is invoking the handler.
C35_Witness ==
    /\ DOMAIN tokens[1] = {}
    /\ currentId[1] = 1
    /\ handlers[1] = {1}
    /\ impl[1]
    /\ Len(stack[1]) = 2
    /\ Dispatching(1, 1) /\ stack[1][1].copy = <<1>>
    /\ Top(1).op = "Handler" /\ Top(1).id = 1

\* Thread t is in Unsubscribe() on token k of e and takes a step.
UnsubscribeSteps(t, e, k) ==
    /\ stack[t] # << >>
    /\ Top(t).op = "Unsubscribe" /\ Top(t).e = e /\ Top(t).id = k
    /\ Steps(t)

\* C36: a token and its copy are two objects. A call of Unsubscribe() on
\* one changes nothing of any other token; at its return the handler is
\* out of the registry and the token it was called on is invalid; a token
\* that is valid stops being so only at the return of an Unsubscribe()
\* call on itself or when the Impl ceases to exist; and the erase of an
\* Unsubscribe() on a token whose handler is gone leaves the registry as
\* it is.
C36_CopiesInvalidatedIndependently ==
    [][\A e \in Events : \A k \in DOMAIN tokens[e] :
          /\ \A t \in Threads :
                UnsubscribeSteps(t, e, k) =>
                   /\ \A o \in DOMAIN tokens[e] \ {k} : tokens'[e][o] = tokens[e][o]
                   /\ (Len(stack'[t]) < Len(stack[t]) /\ exc'[t] = "none") =>
                         /\ ~IsValid(e, k)'
                         /\ tokens[e][k].id \notin handlers'[e]
                   /\ (Top(t).pc = "erase" /\ tokens[e][k].id \notin handlers[e]) =>
                         handlers' = handlers
          /\ (IsValid(e, k) /\ k \in DOMAIN tokens'[e] /\ ~IsValid(e, k)') =>
                \/ ~ImplAlive(e)'
                \/ \E t \in Threads :
                      UnsubscribeSteps(t, e, k) /\ Len(stack'[t]) < Len(stack[t])]_vars

\* Unsubscribe() has returned on token 1, which is invalid; its copy is
\* valid, and a later Unsubscribe() on the copy is at its erase, the
\* registry holding the handler of token 2 only.
C36_Witness ==
    /\ {1, CopyOf(1)} \subseteq DOMAIN tokens[1]
    /\ tokens[1][1].returned
    /\ ~IsValid(1, 1)
    /\ IsValid(1, CopyOf(1))
    /\ handlers[1] = {2}
    /\ Running(1, "Unsubscribe", "erase")
    /\ Top(1).id = CopyOf(1)

====
